---- MODULE Spec2Model ----
(***************************************************************************)
(* State-machine model of the weather monitoring agent:                    *)
(*   base_agent.py                 BaseAgent (start, message_loop,         *)
(*                                 process_message, send_* helpers)        *)
(*   weather_monitoring_agent.py   WeatherMonitoringAgent (initialize,     *)
(*                                 start/stop_weather_monitoring,          *)
(*                                 _monitoring_loop, alert engine,         *)
(*                                 _check_noaa_alerts, handle_* handlers) *)
(*   noaa_weather_service.py       NOAAWeatherService (_make_request,      *)
(*                                 get_current_weather, get_active_alerts) *)
(*                                                                         *)
(* Two asyncio coroutines share the agent's fields: the transport loop     *)
(* (message_loop and the handler it awaits) and the monitoring task        *)
(* (_monitoring_loop).  A step of the model is the code a coroutine runs   *)
(* between two suspension points.  The suspension points are the awaits    *)
(* that really yield to the event loop: the stdin read, session.get, the   *)
(* asyncio.sleep calls and the await of the cancelled task.  send_message  *)
(* prints synchronously and never yields.  asyncio.CancelledError is a     *)
(* BaseException (Python 3.8 and later), so no `except Exception` of the   *)
(* code catches it.                                                        *)
(***************************************************************************)
EXTENDS Integers, Sequences, FiniteSets, TLC

(***************************************************************************)
(* Bounds of the exploration.                                              *)
(***************************************************************************)
\* envelopes the transport loop reads in one behaviour
MaxMsgs == 2
\* readings the monitoring loop appends in one behaviour
MaxCycles == 2
\* length of the history window explored (the code's window is 168)
HistoryWindow == 2

(***************************************************************************)
(* Values.                                                                 *)
(***************************************************************************)
\* Python's None for an optional number
NoneVal == 0 - 1
\* a JSON value that is not a number (a string, null, a list)
NotANumber == 0 - 2
\* correlationId of an envelope that carries none (ids are 1, 2, ...)
NoCorrelation == 0
Broadcast == "broadcast"
Sources == {"host"}
AdvisoryIds == {"adv_a"}

HandledTypes ==
    {"start_monitoring", "stop_monitoring", "get_current_weather",
     "get_weather_history", "get_weather_forecast", "get_weather_alerts",
     "update_alert_thresholds", "weather_analysis_request",
     "get_noaa_alerts", "refresh_noaa_data"}

\* register_default_handlers: the base handlers modelled here
DefaultTypes == {"shutdown"}

\* the registry after construction
message_handlers == DefaultTypes \cup HandledTypes

\* a type no handler is registered for
UnknownTypes == {"bogus_request"}

ThresholdKeys ==
    {"temperature_high", "temperature_low", "precipitation_heavy",
     "precipitation_extreme", "wind_high", "wind_extreme",
     "visibility_low", "uv_extreme"}

\* alert_thresholds as set by __init__ (precipitation in hundredths of an inch)
DefaultThresholds ==
    [k \in ThresholdKeys |->
        CASE k = "temperature_high" -> 95
          [] k = "temperature_low" -> 20
          [] k = "precipitation_heavy" -> 50
          [] k = "precipitation_extreme" -> 100
          [] k = "wind_high" -> 30
          [] k = "wind_extreme" -> 50
          [] k = "visibility_low" -> 2
          [] k = "uv_extreme" -> 8]

(***************************************************************************)
(* State.                                                                  *)
(***************************************************************************)
VARIABLES
    \* BaseAgent
    is_running,         \* self.is_running
    message_count,      \* self.message_count
    error_count,        \* self.error_count
    tpc,                \* where start() / message_loop / the awaited handler is
    msg,                \* the envelope being dispatched
    received,           \* envelopes read so far; the k-th has id k
    sent,               \* the envelopes the last step printed on stdout
    \* WeatherMonitoringAgent
    use_real_weather,   \* self.use_real_weather
    noaa_service,       \* self.noaa_service is not None
    noaa_location,      \* self.noaa_location is not None
    weather_data,       \* self.weather_data (the history)
    active_alerts,      \* self.active_alerts
    noaa_alerts,        \* self.noaa_alerts (identifiers of the cached list)
    alert_thresholds,   \* self.alert_thresholds
    monitoring_active,  \* self.monitoring_active
    mpc,                \* self.monitoring_task: where _monitoring_loop is
    cancel_requested,   \* monitoring_task.cancel() called, not yet delivered
    call,               \* per coroutine: the provider call it is suspended in
    \* history variables (not fields of the program)
    loop_appends,       \* readings appended by _monitoring_loop so far
    stopped_since,      \* stop returned success and no start succeeded since
    lines_read,         \* lines read from stdin so far, envelopes or not
    seen_ids,           \* advisory identifiers ever returned by a fetch
    last_fetch,         \* whether the latest advisory fetch succeeded, and
                        \* what the latest successful one returned
    answer_log,         \* correlationIds printed so far, in order
    broadcast_count,    \* per advisory identifier: noaa_weather_alert envelopes printed
    sent_count          \* agent_ready and agent_goodbye envelopes printed so far

vars ==
    <<is_running, message_count, error_count, tpc, msg, received, sent,
      use_real_weather, noaa_service, noaa_location, weather_data,
      active_alerts, noaa_alerts, alert_thresholds, monitoring_active, mpc,
      cancel_requested, call, loop_appends, stopped_since, lines_read,
      seen_ids, last_fetch,
      answer_log, broadcast_count, sent_count>>

base_vars == <<is_running, message_count, error_count, tpc, msg, received>>
provider_vars == <<use_real_weather, noaa_service, noaa_location>>
data_vars == <<weather_data, active_alerts, noaa_alerts, alert_thresholds>>
task_vars == <<monitoring_active, mpc, cancel_requested>>
read_vars == <<loop_appends, stopped_since, seen_ids, last_fetch>>
ghost_vars == <<read_vars, lines_read>>

\* the monitoring state a rejected or unknown request must leave alone
monitoring_state ==
    <<monitoring_active, mpc, cancel_requested, weather_data, active_alerts,
      noaa_alerts, alert_thresholds>>

(***************************************************************************)
(* Readings.  A reading keeps the fields the alert engine compares, and    *)
(* `origin`: which constructor built it (the simulator's, or the           *)
(* conversion of a provider reading).                                      *)
(***************************************************************************)
Reading(t, p, w, v, uv) ==
    [temperature_f |-> t, precipitation_inches |-> p, wind_speed_mph |-> w,
     visibility_miles |-> v, uv_index |-> uv, origin |-> "simulator"]

\* no reading: Python's None where a reading is optional
NoReading == [origin |-> "none"]

\* WeatherSimulator.generate_hourly_reading: the draws explored
SimReadings == {Reading(70, 0, 10, 10, 0), Reading(96, 0, 10, 10, 0)}

\* NOAAWeatherService.get_current_weather: the readings explored
\* (temperature_f, wind_speed_mph, visibility_miles; None when not reported)
NOAAReading(t, w, v) ==
    [temperature_f |-> t, wind_speed_mph |-> w, visibility_miles |-> v]

NOAAReadings == {NOAAReading(NoneVal, 0, 1)}

\* Python's `x or d`
OrDefault(x, d) == IF x = NoneVal \/ x = 0 THEN d ELSE x

_convert_noaa_reading(noaa_reading) ==
    [Reading(OrDefault(noaa_reading.temperature_f, 70),
             0,
             OrDefault(noaa_reading.wind_speed_mph, 0),
             OrDefault(noaa_reading.visibility_miles, 10),
             0)
        EXCEPT !.origin = "noaa"]

\* faulty variant: a cut that keeps the oldest HistoryWindow readings
AppendKeepsOldest(history, reading) ==
    LET h == Append(history, reading)
    IN  IF Len(h) > HistoryWindow THEN SubSeq(h, 1, HistoryWindow) ELSE h

\* weather_data.append(reading) and the cut to the last HistoryWindow readings
AppendReading(history, reading) ==
    LET h == Append(history, reading)
    IN  IF Len(h) > HistoryWindow
        THEN SubSeq(h, Len(h) - HistoryWindow + 1, Len(h))
        ELSE h

(***************************************************************************)
(* Alert engine: _check_weather_alerts and the _create_*_alert builders.   *)
(* An alert's creation time is kept as `expired`: whether it is older than *)
(* the six-hour retention window.                                          *)
(***************************************************************************)
Alert(type, severity, recommendations, services) ==
    [alert_type |-> type, severity |-> severity,
     recommendations |-> recommendations, affected_services |-> services,
     expired |-> FALSE]

\* faulty variant: a temperature alert that leaves the shelters out
TemperatureAlertWithoutShelter(reading, temp_type) ==
    Alert("temperature", "high", 4,
          {"outreach", "outdoor_events", "transportation"})

_create_temperature_alert(reading, temp_type) ==
    Alert("temperature",
          IF \/ (temp_type = "high" /\ reading.temperature_f > 100)
             \/ (temp_type = "low" /\ reading.temperature_f < 10)
          THEN "extreme" ELSE "high",
          4,
          {"shelter", "outreach", "outdoor_events", "transportation"})

\* faulty variant: a precipitation alert whose severity ignores its kind
PrecipitationAlwaysHigh(reading, precip_type) ==
    Alert("precipitation", "high", 4,
          {"transportation", "outdoor_events", "facility_operations"})

_create_precipitation_alert(reading, precip_type) ==
    Alert("precipitation",
          IF precip_type = "extreme" THEN "extreme" ELSE "high",
          IF precip_type = "extreme" THEN 7 ELSE 4,
          {"transportation", "outdoor_events", "facility_operations"})

_create_wind_alert(reading, wind_type) ==
    Alert("wind",
          IF wind_type = "extreme" THEN "extreme" ELSE "high",
          IF wind_type = "extreme" THEN 7 ELSE 4,
          {"facility_operations", "outdoor_events", "transportation"})

_create_visibility_alert(reading) ==
    Alert("visibility", "medium", 4,
          {"transportation", "outreach", "outdoor_events"})

_create_uv_alert(reading) ==
    Alert("uv", "medium", 4, {"outdoor_events", "outreach", "recreation"})

\* a threshold set over the wire to a value Python cannot compare a float with
Uncomparable(th, k) == th[k] = NotANumber

\* the comparisons of _check_weather_alerts raise TypeError: each `if` is
\* evaluated, each `elif` only when its `if` was false
CheckRaises(reading, th) ==
    \/ Uncomparable(th, "temperature_high")
    \/ /\ reading.temperature_f < th["temperature_high"]
       /\ Uncomparable(th, "temperature_low")
    \/ Uncomparable(th, "precipitation_extreme")
    \/ /\ reading.precipitation_inches < th["precipitation_extreme"]
       /\ Uncomparable(th, "precipitation_heavy")
    \/ Uncomparable(th, "wind_extreme")
    \/ /\ reading.wind_speed_mph < th["wind_extreme"]
       /\ Uncomparable(th, "wind_high")
    \/ Uncomparable(th, "visibility_low")
    \/ Uncomparable(th, "uv_extreme")

\* alerts_generated, in the order the code appends them
AlertsGenerated(reading, th) ==
    (IF reading.temperature_f >= th["temperature_high"]
       THEN <<_create_temperature_alert(reading, "high")>>
     ELSE IF reading.temperature_f <= th["temperature_low"]
       THEN <<_create_temperature_alert(reading, "low")>>
     ELSE <<>>)
    \o
    (IF reading.precipitation_inches >= th["precipitation_extreme"]
       THEN <<_create_precipitation_alert(reading, "extreme")>>
     ELSE IF reading.precipitation_inches >= th["precipitation_heavy"]
       THEN <<_create_precipitation_alert(reading, "heavy")>>
     ELSE <<>>)
    \o
    (IF reading.wind_speed_mph >= th["wind_extreme"]
       THEN <<_create_wind_alert(reading, "extreme")>>
     ELSE IF reading.wind_speed_mph >= th["wind_high"]
       THEN <<_create_wind_alert(reading, "high")>>
     ELSE <<>>)
    \o
    (IF reading.visibility_miles <= th["visibility_low"]
       THEN <<_create_visibility_alert(reading)>> ELSE <<>>)
    \o
    (IF reading.uv_index >= th["uv_extreme"]
       THEN <<_create_uv_alert(reading)>> ELSE <<>>)

NotExpired(alert) == ~alert.expired

\* the clean-up at the end of _check_weather_alerts
PurgeOldAlerts(alerts) == SelectSeq(alerts, NotExpired)

(***************************************************************************)
(* Envelopes (CrossLanguageMessage).  An outgoing envelope keeps its type, *)
(* destination, metadata.correlationId, metadata.priority and what its     *)
(* payload is about, and the payload entries the properties read:          *)
(*   alerts, noaa_alerts, alert_count   the lists of the alert responses   *)
(*   capabilities    payload["capabilities"] of agent_ready                *)
(*   statistics      payload["statistics"] of agent_goodbye                *)
(*   reading         the reading the payload carries (current_weather,     *)
(*                   weather_data)                                         *)
(*   data_quality    payload["data_quality"]; "absent" when the payload    *)
(*                   has no such key                                       *)
(***************************************************************************)
NoStatistics == [status |-> "none"]

Envelope(type, destination, correlation_id, priority, body) ==
    [type |-> type, destination |-> destination,
     correlationId |-> correlation_id, priority |-> priority, body |-> body,
     alerts |-> <<>>, noaa_alerts |-> {}, alert_count |-> 0,
     capabilities |-> {}, statistics |-> NoStatistics,
     reading |-> NoReading, data_quality |-> "absent"]

NoMsg == [id |-> 0, type |-> "none", source |-> "none", payload |-> "none"]

\* the payloads explored for a request type: "ok" is a JSON object the
\* handler can read, "not_an_object" a JSON value that has no .get
Payloads(type) ==
    CASE type \in {"start_monitoring", "get_weather_history",
                   "get_weather_forecast", "weather_analysis_request"}
           -> {"ok", "not_an_object"}
      [] type = "update_alert_thresholds"
           -> {"set_temperature_high", "set_uncomparable", "set_unknown_key",
               "not_an_object"}
      [] OTHER -> {"ok"}

\* the lines the k-th read may return
Requests(k) ==
    UNION {{[id |-> k, type |-> t, source |-> s, payload |-> p] :
                s \in Sources, p \in Payloads(t)} :
           t \in message_handlers \cup UnknownTypes}

send_error_message(error, correlation_id) ==
    Envelope("error", Broadcast, correlation_id, "high", error)

\* BaseAgent.get_capabilities
BaseCapabilities == {"ping", "status", "heartbeat"}

\* WeatherMonitoringAgent.get_capabilities
get_capabilities ==
    BaseCapabilities
       \cup {"start_monitoring", "stop_monitoring", "get_current_weather",
             "get_weather_history", "get_weather_forecast",
             "get_weather_alerts", "weather_analysis_request"}
       \cup {"get_noaa_alerts", "refresh_noaa_data"}

\* faulty variant: a ready envelope without the capability list
ReadyWithoutCapabilities ==
    Envelope("agent_ready", Broadcast, NoCorrelation, "normal", "capabilities")

send_ready_message ==
    [Envelope("agent_ready", Broadcast, NoCorrelation, "normal", "capabilities")
        EXCEPT !.capabilities = get_capabilities]

\* "statistics": get_statistics(), which is get_status()
get_statistics(running, messages, errors) ==
    [status |-> IF running THEN "running" ELSE "stopped",
     message_count |-> messages, error_count |-> errors]

send_goodbye_message(statistics) ==
    [Envelope("agent_goodbye", Broadcast, NoCorrelation, "normal",
              "normal_shutdown")
        EXCEPT !.statistics = statistics]

\* "weather_data": reading.to_dict(), "data_quality": "simulated"
_broadcast_weather_update(reading) ==
    [Envelope("weather_update", Broadcast, NoCorrelation, "normal", "simulated")
        EXCEPT !.reading = reading, !.data_quality = "simulated"]

\* faulty variant: an alert broadcast at the priority of a state update
WeatherAlertAtNormalPriority(alert) ==
    Envelope("weather_alert", Broadcast, NoCorrelation, "normal", alert.alert_type)

_broadcast_weather_alert(alert) ==
    Envelope("weather_alert", Broadcast, NoCorrelation, "high", alert.alert_type)

_broadcast_noaa_alert(alert_id) ==
    Envelope("noaa_weather_alert", Broadcast, NoCorrelation, "normal", alert_id)

\* faulty variant: a response that is broadcast instead of sent to the request's source
ResponseToAll(type, message, body) ==
    Envelope(type, Broadcast, message.id, "normal", body)

\* the response a handler sends: destination=message.source,
\* correlationId=message.id
Response(type, message, body) ==
    Envelope(type, message.source, message.id, "normal", body)

RECURSIVE SetToSeq(_)
SetToSeq(S) ==
    IF S = {} THEN <<>>
    ELSE LET x == CHOOSE y \in S : TRUE IN <<x>> \o SetToSeq(S \ {x})

MapSeq(s, Op(_)) == [i \in 1..Len(s) |-> Op(s[i])]

(***************************************************************************)
(* stdout.  A step prints zero or more envelopes; `sent` holds what the    *)
(* last step printed, the history variables keep what the claims need of   *)
(* everything printed before.                                              *)
(***************************************************************************)
IsCorrelated(envelope) == envelope.correlationId # NoCorrelation

CorrelationId(envelope) == envelope.correlationId

\* how many of the envelopes are the broadcast of advisory `id`
Broadcasts(envelopes, id) ==
    Cardinality({i \in 1..Len(envelopes) :
                    /\ envelopes[i].type = "noaa_weather_alert"
                    /\ envelopes[i].body = id})

\* the envelopes of the start and stop sequences
LifecycleTypes == {"agent_ready", "agent_goodbye"}

\* how many of the envelopes have the type
OfType(envelopes, type) ==
    Cardinality({i \in 1..Len(envelopes) : envelopes[i].type = type})

\* send_message for each of the envelopes, in order
Emit(envelopes) ==
    /\ sent' = envelopes
    /\ sent_count' =
          [t \in LifecycleTypes |-> sent_count[t] + OfType(envelopes, t)]
    /\ answer_log' =
          answer_log \o MapSeq(SelectSeq(envelopes, IsCorrelated), CorrelationId)
    /\ broadcast_count' =
          [id \in AdvisoryIds |-> broadcast_count[id] + Broadcasts(envelopes, id)]

(***************************************************************************)
(* BaseAgent.start: initialize(), send_ready_message(), message_loop().    *)
(* Nothing else runs before the loop starts, so initialize is one step.    *)
(***************************************************************************)
\* what the provider answers an advisory request with: no usable data
\* (upstream error, timeout, non-success status) or the active advisories
FetchAnswers ==
    {[ok |-> FALSE, ids |-> {}]}
       \cup {[ok |-> TRUE, ids |-> S] : S \in SUBSET AdvisoryIds}

\* NOAAWeatherService.get_active_alerts: the empty list when the request
\* gave no data
get_active_alerts(answer) == IF answer.ok THEN answer.ids ELSE {}

\* history: the outcome of this fetch
Fetched(answer) ==
    last_fetch' = [ok |-> answer.ok,
                   snapshot |-> IF answer.ok THEN answer.ids
                                ELSE last_fetch.snapshot]

\* the import of noaa_weather_service succeeded
NOAA_AVAILABLE == TRUE

\* `reading` is the local variable of the cycle the call was made in
NoCall == [op |-> "none", st |-> "idle", reading |-> NoReading]
Callers == {"loop", "handler"}

\* the live provider is configured (the test of _monitoring_loop,
\* _check_noaa_alerts and handle_refresh_noaa_data)
LiveConfigured == use_real_weather /\ noaa_service /\ noaa_location

Init ==
    /\ is_running = FALSE
    /\ message_count = 0
    /\ error_count = 0
    /\ tpc = "constructed"
    /\ msg = NoMsg
    /\ received = 0
    /\ sent = <<>>
    /\ use_real_weather \in BOOLEAN
    /\ noaa_service = FALSE
    /\ noaa_location = FALSE
    /\ weather_data = <<>>
    /\ active_alerts = <<>>
    /\ noaa_alerts = {}
    /\ alert_thresholds = DefaultThresholds
    /\ monitoring_active = FALSE
    /\ mpc = "none"
    /\ cancel_requested = FALSE
    /\ call = [c \in Callers |-> NoCall]
    /\ loop_appends = 0
    /\ lines_read = 0
    /\ stopped_since = FALSE
    /\ seen_ids = {}
    /\ last_fetch = [ok |-> TRUE, snapshot |-> {}]
    /\ answer_log = <<>>
    /\ broadcast_count = [id \in AdvisoryIds |-> 0]
    /\ sent_count = [t \in LifecycleTypes |-> 0]

\* faulty variant: a fallback that builds the initial reading and drops it
InitialReadingLost(reading) == weather_data' = weather_data

\* initialize: self.weather_data.append(initial_reading)
append_initial_reading(reading) == weather_data' = Append(weather_data, reading)

\* what the set-up of the provider in initialize() can end in
InitOutcomes ==
    {"construct_fails", "session_fails", "geocode_fails", "grid_fails", "ok"}

initialize ==
    /\ tpc = "constructed"
    /\ is_running' = TRUE
    /\ tpc' = "initialized"
    /\ \/ \* simulation requested, or the import failed
          /\ ~(use_real_weather /\ NOAA_AVAILABLE)
          /\ use_real_weather' = FALSE
          /\ UNCHANGED <<noaa_service, noaa_location, noaa_alerts, seen_ids, last_fetch>>
          /\ \E reading \in SimReadings : append_initial_reading(reading)
       \/ \* the provider set-up fails: fall back to simulation
          /\ use_real_weather /\ NOAA_AVAILABLE
          /\ \E outcome \in InitOutcomes \ {"ok"} :
                noaa_service' = (outcome # "construct_fails")
          /\ use_real_weather' = FALSE
          /\ UNCHANGED <<noaa_location, noaa_alerts, seen_ids, last_fetch>>
          /\ \E reading \in SimReadings : append_initial_reading(reading)
       \/ \* the provider is set up; initial reading and initial advisories
          /\ use_real_weather /\ NOAA_AVAILABLE
          /\ noaa_service' = TRUE
          /\ noaa_location' = TRUE
          /\ UNCHANGED use_real_weather
          /\ \/ \E noaa_reading \in NOAAReadings :
                    append_initial_reading(_convert_noaa_reading(noaa_reading))
             \/ \E reading \in SimReadings : append_initial_reading(reading)
          /\ \E answer \in FetchAnswers :
                /\ noaa_alerts' = get_active_alerts(answer)
                /\ seen_ids' = seen_ids \cup get_active_alerts(answer)
                /\ Fetched(answer)
    /\ Emit(<<>>)
    /\ UNCHANGED <<lines_read, message_count, error_count, msg, received, active_alerts,
                   alert_thresholds, task_vars, call, loop_appends,
                   stopped_since>>

\* initialize() raises.  An Exception is caught by start(), which counts
\* it, sends an error envelope and raises it again; an interruption
\* (KeyboardInterrupt, CancelledError) passes through start() untouched.
\* The provider may have been constructed before the failure.
initialize_raises ==
    /\ tpc = "constructed"
    /\ is_running' = TRUE
    /\ tpc' = "failed"
    /\ noaa_service' \in {FALSE, use_real_weather /\ NOAA_AVAILABLE}
    /\ \/ /\ error_count' = error_count + 1
          /\ Emit(<<send_error_message("exception", NoCorrelation)>>)
       \/ /\ UNCHANGED error_count
          /\ Emit(<<>>)
    /\ UNCHANGED <<message_count, msg, received, use_real_weather,
                   noaa_location, data_vars, task_vars, call, ghost_vars>>

ready ==
    /\ tpc = "initialized"
    /\ Emit(<<send_ready_message>>)
    /\ tpc' = "read"
    /\ UNCHANGED <<is_running, message_count, error_count, msg, received,
                   provider_vars, data_vars, task_vars, call, ghost_vars>>

(***************************************************************************)
(* message_loop and process_message.                                       *)
(***************************************************************************)
\* faulty variant: a transport loop that reads on while a handler is suspended
ReadsWhileHandlerSuspended == tpc \in {"read", "stop_wait", "refresh"}

\* message_loop awaits process_message before it reads the next line
ReadyToRead == tpc = "read"

\* line = await self.read_stdin_line(); from_dict
read_stdin_line ==
    /\ ReadyToRead
    /\ is_running
    /\ lines_read < MaxMsgs
    /\ lines_read' = lines_read + 1
    /\ \E message \in Requests(received + 1) : msg' = message
    /\ received' = received + 1
    /\ tpc' = "dispatch"
    /\ Emit(<<>>)
    /\ UNCHANGED <<is_running, message_count, error_count, provider_vars,
                   data_vars, task_vars, call, read_vars>>

\* lines that are no envelope: json.loads raises JSONDecodeError, or
\* from_dict raises on the parsed value (a field is missing: KeyError; the
\* value is no object: TypeError)
BadLines == {"invalid_json", "missing_field", "not_an_object"}

\* faulty variant: a line that cannot be parsed ends the transport loop
UnparseableLineStopsLoop ==
    /\ ReadyToRead
    /\ is_running
    /\ lines_read < MaxMsgs
    /\ lines_read' = lines_read + 1
    /\ error_count' = error_count + 1
    /\ is_running' = FALSE
    /\ Emit(<<>>)
    /\ UNCHANGED <<message_count, tpc, msg, received, provider_vars,
                   data_vars, task_vars, call, read_vars>>

\* the line read is no envelope: `except json.JSONDecodeError` counts the
\* error and the loop reads on; any other exception is counted by the
\* outer `except Exception`, which sleeps a second before the loop reads on
read_unparseable_line ==
    /\ ReadyToRead
    /\ is_running
    /\ lines_read < MaxMsgs
    /\ \E line \in BadLines :
          /\ lines_read' = lines_read + 1
          /\ error_count' = error_count + 1
    /\ Emit(<<>>)
    /\ UNCHANGED <<is_running, message_count, tpc, msg, received,
                   provider_vars, data_vars, task_vars, call, read_vars>>

\* read_stdin_line returned nothing (an empty line, or end of input):
\* `if not line: await asyncio.sleep(0.1); continue`
read_empty ==
    /\ ReadyToRead
    /\ is_running
    /\ Emit(<<>>)
    /\ UNCHANGED <<is_running, message_count, error_count, tpc, msg,
                   received, provider_vars, data_vars, task_vars, call,
                   ghost_vars>>

\* `while self.is_running` found false
loop_exit ==
    /\ tpc = "read"
    /\ ~is_running
    /\ tpc' = "exited"
    /\ Emit(<<>>)
    /\ UNCHANGED <<is_running, message_count, error_count, msg, received,
                   provider_vars, data_vars, task_vars, call, ghost_vars>>

\* the handler returned: back in message_loop, self.message_count += 1
Finish(envelopes) ==
    /\ Emit(envelopes)
    /\ message_count' = message_count + 1
    /\ tpc' = "read"
    /\ msg' = NoMsg

Dispatching(type) == tpc = "dispatch" /\ msg.type = type

\* the handlers whose first statement is message.payload.get(...)
ReadsPayload ==
    {"start_monitoring", "get_weather_history", "get_weather_forecast",
     "update_alert_thresholds", "weather_analysis_request"}

\* the handler raises at message.payload.get / .items()
HandlerRaises ==
    /\ tpc = "dispatch"
    /\ msg.type \in ReadsPayload
    /\ msg.payload = "not_an_object"

\* process_message, `except Exception`
handler_exception ==
    /\ HandlerRaises
    /\ error_count' = error_count + 1
    /\ Finish(<<send_error_message("exception", msg.id)>>)
    /\ UNCHANGED <<is_running, received, provider_vars, data_vars, task_vars,
                   call, ghost_vars>>

\* faulty variant: an unknown type that ends the transport loop
UnknownTypeStopsLoop ==
    /\ tpc = "dispatch"
    /\ msg.type \notin message_handlers
    /\ is_running' = FALSE
    /\ Finish(<<send_error_message(msg.type, NoCorrelation)>>)
    /\ UNCHANGED <<error_count, received, provider_vars, data_vars,
                   task_vars, call, ghost_vars>>

\* process_message, no handler registered for message.type
unknown_type ==
    /\ tpc = "dispatch"
    /\ msg.type \notin message_handlers
    /\ Finish(<<send_error_message(msg.type, NoCorrelation)>>)
    /\ UNCHANGED <<is_running, error_count, received, provider_vars,
                   data_vars, task_vars, call, ghost_vars>>

handle_shutdown ==
    /\ Dispatching("shutdown")
    /\ is_running' = FALSE
    /\ Finish(<<>>)
    /\ UNCHANGED <<error_count, received, provider_vars, data_vars,
                   task_vars, call, ghost_vars>>

(***************************************************************************)
(* start_weather_monitoring / stop_weather_monitoring and their handlers.  *)
(***************************************************************************)
\* start_weather_monitoring returns True: the flag is set and the task is
\* created (it runs its first step later)
start_weather_monitoring ==
    /\ ~monitoring_active
    /\ monitoring_active' = TRUE
    /\ mpc' = "created"
    /\ cancel_requested' = FALSE
    /\ stopped_since' = FALSE

\* faulty variant: a rejected start that spawns a second task all the same
StartSpawnsAgain ==
    /\ monitoring_active
    /\ mpc' = "created"
    /\ UNCHANGED <<monitoring_active, cancel_requested, stopped_since>>

\* start_weather_monitoring returns False
start_rejected ==
    /\ monitoring_active
    /\ UNCHANGED <<task_vars, stopped_since>>

handle_start_monitoring ==
    /\ Dispatching("start_monitoring")
    /\ ~HandlerRaises
    /\ \/ /\ start_weather_monitoring
          /\ Finish(<<Response("monitoring_response", msg, "success")>>)
       \/ /\ start_rejected
          /\ Finish(<<Response("monitoring_response", msg, "failure")>>)
    /\ UNCHANGED <<lines_read, is_running, error_count, received, provider_vars,
                   data_vars, call, loop_appends, seen_ids, last_fetch>>

\* stop_weather_monitoring up to `await self.monitoring_task`: the flag is
\* cleared and the task is cancelled
stop_weather_monitoring ==
    /\ monitoring_active
    /\ monitoring_active' = FALSE
    /\ cancel_requested' = TRUE
    /\ UNCHANGED mpc

\* handle_stop_monitoring: stop_weather_monitoring returns False at once,
\* or suspends in the await of the cancelled task
handle_stop_monitoring ==
    /\ Dispatching("stop_monitoring")
    /\ \/ /\ ~monitoring_active
          /\ Finish(<<Response("monitoring_response", msg, "failure")>>)
          /\ UNCHANGED task_vars
       \/ /\ stop_weather_monitoring
          /\ tpc' = "stop_wait"
          /\ Emit(<<>>)
          /\ UNCHANGED <<message_count, msg>>
    /\ UNCHANGED <<is_running, error_count, received, provider_vars,
                   data_vars, call, ghost_vars>>

\* faulty variant: a stop that cancels the task and returns without awaiting it
StopDoesNotAwait == TRUE

\* `await self.monitoring_task` is over when the task has finished
TaskFinished == mpc = "done"

\* stop_weather_monitoring returns True and the handler responds
stop_returns ==
    /\ tpc = "stop_wait"
    /\ TaskFinished
    /\ stopped_since' = TRUE
    /\ Finish(<<Response("monitoring_response", msg, "success")>>)
    /\ UNCHANGED <<lines_read, is_running, error_count, received, provider_vars,
                   data_vars, task_vars, call, loop_appends, seen_ids, last_fetch>>

(***************************************************************************)
(* BaseAgent.stop and WeatherMonitoringAgent.cleanup, called by the owner  *)
(* of the agent once start() has returned or raised (the `finally` of      *)
(* example_analytics_agent.main).                                          *)
(***************************************************************************)
\* self.is_running = False; cleanup() up to its first suspension point
stop ==
    /\ tpc \in {"exited", "failed"}
    /\ is_running' = FALSE
    /\ IF monitoring_active
       THEN /\ stop_weather_monitoring
            /\ tpc' = "cleanup_wait"
       ELSE /\ UNCHANGED task_vars
            /\ tpc' = "cleanup_close"
    /\ Emit(<<>>)
    /\ UNCHANGED <<message_count, error_count, msg, received, provider_vars,
                   data_vars, call, ghost_vars>>

\* cleanup: stop_weather_monitoring returns
cleanup_stop_returns ==
    /\ tpc = "cleanup_wait"
    /\ TaskFinished
    /\ stopped_since' = TRUE
    /\ tpc' = "cleanup_close"
    /\ Emit(<<>>)
    /\ UNCHANGED <<lines_read, is_running, message_count, error_count, msg, received,
                   provider_vars, data_vars, task_vars, call, loop_appends,
                   seen_ids, last_fetch>>

\* faulty variant: a cleanup that closes the session and keeps the handle
CleanupKeepsProvider ==
    /\ tpc = "cleanup_close"
    /\ tpc' = "goodbye"
    /\ Emit(<<>>)
    /\ UNCHANGED <<is_running, message_count, error_count, msg, received,
                   provider_vars, data_vars, task_vars, call, ghost_vars>>

\* cleanup: await self.noaa_service.close(); self.noaa_service = None
cleanup_close ==
    /\ tpc = "cleanup_close"
    /\ noaa_service' = FALSE
    /\ tpc' = "goodbye"
    /\ Emit(<<>>)
    /\ UNCHANGED <<is_running, message_count, error_count, msg, received,
                   use_real_weather, noaa_location, data_vars, task_vars,
                   call, ghost_vars>>

\* await self.send_goodbye_message(); stop() returns
stop_goodbye ==
    /\ tpc = "goodbye"
    /\ Emit(<<send_goodbye_message(
                  get_statistics(is_running, message_count, error_count))>>)
    /\ tpc' = "stopped"
    /\ UNCHANGED <<is_running, message_count, error_count, msg, received,
                   provider_vars, data_vars, task_vars, call, ghost_vars>>

(***************************************************************************)
(* The handlers that answer from the shared state.                         *)
(***************************************************************************)
\* a handler that sends one response and changes nothing else
AnswerWith(type, response) ==
    /\ Dispatching(type)
    /\ ~HandlerRaises
    /\ Finish(<<response>>)
    /\ UNCHANGED <<is_running, error_count, received, provider_vars,
                   data_vars, task_vars, call, ghost_vars>>

Answer(type, response_type, body) ==
    AnswerWith(type, Response(response_type, msg, body))

\* "current_weather": self.weather_data[-1], or None
handle_get_current_weather ==
    AnswerWith("get_current_weather",
               [Response("weather_response", msg, "current_weather")
                   EXCEPT !.reading =
                             IF weather_data = <<>> THEN NoReading
                             ELSE weather_data[Len(weather_data)]])

handle_get_weather_history ==
    Answer("get_weather_history", "weather_history_response", "weather_history")

\* "forecast": simulator readings, "data_quality": "simulated"
handle_get_weather_forecast ==
    AnswerWith("get_weather_forecast",
               [Response("weather_forecast_response", msg, "simulated")
                   EXCEPT !.data_quality = "simulated"])

\* "active_alerts": the list as it is, "alert_count": its length
handle_get_weather_alerts ==
    AnswerWith("get_weather_alerts",
               [Response("weather_alerts_response", msg, "active_alerts")
                   EXCEPT !.alerts = active_alerts,
                          !.alert_count = Len(active_alerts)])

handle_weather_analysis_request ==
    Answer("weather_analysis_request", "weather_analysis_response", "analysis")

\* "alerts": the cached advisories, "alert_count": their number
handle_get_noaa_alerts ==
    AnswerWith("get_noaa_alerts",
               [Response("noaa_alerts_response", msg,
                         IF use_real_weather /\ NOAA_AVAILABLE
                         THEN "live" ELSE "fallback_mode")
                   EXCEPT !.noaa_alerts =
                             IF NOAA_AVAILABLE THEN noaa_alerts ELSE {},
                          !.alert_count =
                             IF NOAA_AVAILABLE THEN Cardinality(noaa_alerts)
                             ELSE 0])

\* payload['thresholds'] as a set of <<key, value>> pairs
ThresholdUpdate(payload) ==
    CASE payload = "set_temperature_high" -> {<<"temperature_high", 60>>}
      [] payload = "set_uncomparable" -> {<<"temperature_low", NotANumber>>}
      [] payload = "set_unknown_key" -> {<<"humidity_high", 90>>}
      [] OTHER -> {}

\* the keys a partial map names
UpdateKeys(update) == {kv[1] : kv \in update}

\* the value a partial map gives for a key it names
UpdateValue(update, k) == (CHOOSE kv \in update : kv[1] = k)[2]

\* faulty variant: an update that stores every key of the partial map
UpdateAddsKeys(th, update) ==
    [k \in DOMAIN th \cup UpdateKeys(update) |->
        IF k \in UpdateKeys(update) THEN UpdateValue(update, k) ELSE th[k]]

\* for key, value in new_thresholds.items(): if key in self.alert_thresholds
UpdatedThresholds(th, update) ==
    [k \in DOMAIN th |->
        IF \E kv \in update : kv[1] = k
        THEN (CHOOSE kv \in update : kv[1] = k)[2]
        ELSE th[k]]

handle_update_alert_thresholds ==
    /\ Dispatching("update_alert_thresholds")
    /\ ~HandlerRaises
    /\ alert_thresholds' =
          UpdatedThresholds(alert_thresholds, ThresholdUpdate(msg.payload))
    /\ Finish(<<Response("thresholds_update_response", msg, "success")>>)
    /\ UNCHANGED <<is_running, error_count, received, provider_vars,
                   weather_data, active_alerts, noaa_alerts, task_vars, call,
                   ghost_vars>>

(***************************************************************************)
(* NOAAWeatherService: a provider call a coroutine is suspended in.        *)
(*   op   the request in flight: "gridpoint" and "forecast" are the two    *)
(*        requests of get_current_weather, "alerts" is get_active_alerts   *)
(*   st   "http": awaiting session.get; "backoff": in asyncio.sleep(5)     *)
(*        after a 429 answer, before _make_request calls itself again      *)
(***************************************************************************)
Request(op) == [op |-> op, st |-> "http", reading |-> NoReading]

InFlight(c, op) == call[c].op = op /\ call[c].st = "http"

\* _make_request: status 429, `await asyncio.sleep(5)`
Overloaded(c) ==
    /\ call[c].st = "http"
    /\ call' = [call EXCEPT ![c].st = "backoff"]

\* _make_request: `return await self._make_request(url)`
Retry(c) ==
    /\ call[c].st = "backoff"
    /\ call' = [call EXCEPT ![c].st = "http"]

\* get_current_weather: the gridpoint answer has properties; the forecast
\* request follows
GridpointAnswered(c) ==
    /\ InFlight(c, "gridpoint")
    /\ call' = [call EXCEPT ![c] = Request("forecast")]

(***************************************************************************)
(* _check_noaa_alerts after the fetch returned `fetched` (a failed fetch   *)
(* returns the empty list): the new advisories are those not in the cached *)
(* list, the cached list is replaced, the new ones are broadcast.          *)
(***************************************************************************)
NewAlerts(fetched) == fetched \ noaa_alerts

_check_noaa_alerts(fetched) ==
    /\ noaa_alerts' = fetched
    /\ seen_ids' = seen_ids \cup fetched

NoaaBroadcasts(fetched) ==
    MapSeq(SetToSeq(NewAlerts(fetched)), _broadcast_noaa_alert)

(***************************************************************************)
(* _monitoring_loop.                                                       *)
(***************************************************************************)
\* the task is at the top of the while loop: first step, or asyncio.sleep over
AtLoopTop == mpc \in {"created", "sleep"} /\ ~cancel_requested

\* faulty variant: a loop that runs until it is stopped
WhileIgnoresDeadline(deadline_reached) == monitoring_active

\* `while self.monitoring_active and time.time() < end_time`
WhileCondition(deadline_reached) == monitoring_active /\ ~deadline_reached

\* faulty variant: a loop that returns without its `finally`
LoopEndsKeepsFlag ==
    /\ mpc' = "done"
    /\ UNCHANGED monitoring_active

\* `finally: self.monitoring_active = False`, the coroutine returns
LoopEnds ==
    /\ monitoring_active' = FALSE
    /\ mpc' = "done"

\* the cycle from weather_data.append(reading) to the next suspension point
Cycle(reading) ==
    /\ weather_data' = AppendReading(weather_data, reading)
    /\ loop_appends' = loop_appends + 1
    /\ IF CheckRaises(reading, alert_thresholds)
       THEN \* `except Exception` around the while loop
            /\ LoopEnds
            /\ call' = [call EXCEPT !["loop"] = NoCall]
            /\ Emit(<<>>)
            /\ UNCHANGED active_alerts
       ELSE LET fired == AlertsGenerated(reading, alert_thresholds)
                alerts == MapSeq(fired, _broadcast_weather_alert)
            IN  /\ active_alerts' = PurgeOldAlerts(active_alerts \o fired)
                /\ UNCHANGED monitoring_active
                /\ IF LiveConfigured /\ NOAA_AVAILABLE
                   THEN \* suspended in _check_noaa_alerts
                        /\ Emit(alerts)
                        /\ mpc' = "poll"
                        /\ call' = [call EXCEPT !["loop"] =
                                      [Request("alerts")
                                          EXCEPT !.reading = reading]]
                   ELSE \* _broadcast_weather_update, asyncio.sleep
                        /\ Emit(alerts \o <<_broadcast_weather_update(reading)>>)
                        /\ mpc' = "sleep"
                        /\ call' = [call EXCEPT !["loop"] = NoCall]

\* the while condition is false: the deadline has passed
loop_ends ==
    /\ AtLoopTop
    /\ \E deadline_reached \in BOOLEAN : ~WhileCondition(deadline_reached)
    /\ LoopEnds
    /\ Emit(<<>>)
    /\ UNCHANGED <<base_vars, provider_vars, data_vars, cancel_requested,
                   call, ghost_vars>>

loop_cycle_simulated ==
    /\ AtLoopTop
    /\ \E deadline_reached \in BOOLEAN : WhileCondition(deadline_reached)
    /\ ~LiveConfigured
    /\ loop_appends < MaxCycles
    /\ \E reading \in SimReadings : Cycle(reading)
    /\ UNCHANGED <<lines_read, base_vars, provider_vars, noaa_alerts, alert_thresholds,
                   cancel_requested, stopped_since, seen_ids, last_fetch>>

loop_fetch ==
    /\ AtLoopTop
    /\ \E deadline_reached \in BOOLEAN : WhileCondition(deadline_reached)
    /\ LiveConfigured
    /\ loop_appends < MaxCycles
    /\ mpc' = "fetch"
    /\ call' = [call EXCEPT !["loop"] = Request("gridpoint")]
    /\ Emit(<<>>)
    /\ UNCHANGED <<base_vars, provider_vars, data_vars, monitoring_active,
                   cancel_requested, ghost_vars>>

loop_provider ==
    /\ mpc \in {"fetch", "poll"}
    /\ ~cancel_requested
    /\ \/ Overloaded("loop")
       \/ Retry("loop")
       \/ GridpointAnswered("loop")
    /\ Emit(<<>>)
    /\ UNCHANGED <<base_vars, provider_vars, data_vars, task_vars, ghost_vars>>

\* faulty variant: a cycle without live data that switches to simulation
AbsentDisablesLive ==
    /\ mpc = "fetch"
    /\ ~cancel_requested
    /\ InFlight("loop", "gridpoint")
    /\ use_real_weather' = FALSE
    /\ \E reading \in SimReadings : Cycle(reading)
    /\ UNCHANGED <<lines_read, base_vars, noaa_service, noaa_location, noaa_alerts,
                   alert_thresholds, cancel_requested, stopped_since,
                   seen_ids, last_fetch>>

\* get_current_weather returned: the reading built after the forecast
\* request, or None (no gridpoint data) and the simulator's reading
loop_reading ==
    /\ mpc = "fetch"
    /\ ~cancel_requested
    /\ \/ /\ InFlight("loop", "forecast")
          /\ \E noaa_reading \in NOAAReadings :
                Cycle(_convert_noaa_reading(noaa_reading))
       \/ /\ InFlight("loop", "gridpoint")
          /\ \E reading \in SimReadings : Cycle(reading)
    /\ UNCHANGED <<lines_read, base_vars, provider_vars, noaa_alerts, alert_thresholds,
                   cancel_requested, stopped_since, seen_ids, last_fetch>>

\* get_active_alerts returned inside _check_noaa_alerts; then
\* _broadcast_weather_update and asyncio.sleep
loop_advisories ==
    /\ mpc = "poll"
    /\ ~cancel_requested
    /\ InFlight("loop", "alerts")
    /\ \E answer \in FetchAnswers :
          /\ _check_noaa_alerts(get_active_alerts(answer))
          /\ Fetched(answer)
          /\ Emit(NoaaBroadcasts(get_active_alerts(answer))
                  \o <<_broadcast_weather_update(call["loop"].reading)>>)
    /\ mpc' = "sleep"
    /\ call' = [call EXCEPT !["loop"] = NoCall]
    /\ UNCHANGED <<lines_read, base_vars, provider_vars, weather_data, active_alerts,
                   alert_thresholds, monitoring_active, cancel_requested,
                   loop_appends, stopped_since>>

\* CancelledError is thrown into the task at its suspension point (a task
\* cancelled before its first step never enters the try block)
loop_cancelled ==
    /\ cancel_requested
    /\ mpc \notin {"none", "done"}
    /\ mpc' = "done"
    /\ cancel_requested' = FALSE
    /\ IF mpc = "created"
       THEN UNCHANGED monitoring_active
       ELSE monitoring_active' = FALSE
    /\ call' = [call EXCEPT !["loop"] = NoCall]
    /\ Emit(<<>>)
    /\ UNCHANGED <<base_vars, provider_vars, data_vars, ghost_vars>>

\* the wall clock moves on while the transport waits for its next line: the
\* oldest alerts fall out of the retention window
retention_window_passes ==
    /\ tpc = "read"
    /\ \E n \in 1..Len(active_alerts) :
          /\ ~active_alerts[n].expired
          /\ active_alerts' =
                [i \in 1..Len(active_alerts) |->
                    IF i <= n THEN [active_alerts[i] EXCEPT !.expired = TRUE]
                    ELSE active_alerts[i]]
    /\ Emit(<<>>)
    /\ UNCHANGED <<base_vars, provider_vars, weather_data, noaa_alerts,
                   alert_thresholds, task_vars, call, ghost_vars>>

(***************************************************************************)
(* handle_refresh_noaa_data: awaits get_current_weather, then              *)
(* _check_noaa_alerts, then responds.                                      *)
(***************************************************************************)
handle_refresh_noaa_data ==
    /\ Dispatching("refresh_noaa_data")
    /\ \/ /\ LiveConfigured /\ NOAA_AVAILABLE
          /\ tpc' = "refresh"
          /\ call' = [call EXCEPT !["handler"] = Request("gridpoint")]
          /\ Emit(<<>>)
          /\ UNCHANGED <<message_count, msg>>
       \/ /\ ~(LiveConfigured /\ NOAA_AVAILABLE)
          /\ Finish(<<Response("noaa_data_refreshed", msg, "failure")>>)
          /\ UNCHANGED call
    /\ UNCHANGED <<is_running, error_count, received, provider_vars,
                   data_vars, task_vars, ghost_vars>>

refresh_provider ==
    /\ tpc = "refresh"
    /\ \/ Overloaded("handler")
       \/ Retry("handler")
       \/ GridpointAnswered("handler")
    /\ Emit(<<>>)
    /\ UNCHANGED <<base_vars, provider_vars, data_vars, task_vars, ghost_vars>>

\* get_current_weather returned: a reading is appended, None is not; the
\* handler goes on to _check_noaa_alerts
refresh_reading ==
    /\ tpc = "refresh"
    /\ \/ /\ InFlight("handler", "forecast")
          /\ \E noaa_reading \in NOAAReadings :
                weather_data' =
                   AppendReading(weather_data,
                                 _convert_noaa_reading(noaa_reading))
       \/ /\ InFlight("handler", "gridpoint")
          /\ UNCHANGED weather_data
    /\ call' = [call EXCEPT !["handler"] = Request("alerts")]
    /\ Emit(<<>>)
    /\ UNCHANGED <<base_vars, provider_vars, active_alerts, noaa_alerts,
                   alert_thresholds, task_vars, ghost_vars>>

\* get_active_alerts returned inside _check_noaa_alerts; the response
refresh_advisories ==
    /\ tpc = "refresh"
    /\ InFlight("handler", "alerts")
    /\ \E answer \in FetchAnswers :
          /\ _check_noaa_alerts(get_active_alerts(answer))
          /\ Fetched(answer)
          /\ Finish(NoaaBroadcasts(get_active_alerts(answer))
                    \o <<Response("noaa_data_refreshed", msg, "success")>>)
    /\ call' = [call EXCEPT !["handler"] = NoCall]
    /\ UNCHANGED <<lines_read, is_running, error_count, received, provider_vars,
                   weather_data, active_alerts, alert_thresholds, task_vars,
                   loop_appends, stopped_since>>

(***************************************************************************)
(* The specification.                                                      *)
(***************************************************************************)
\* message_loop with the handler it awaits
TransportStep ==
    \/ initialize
    \/ initialize_raises
    \/ ready
    \/ read_stdin_line
    \/ read_unparseable_line
    \/ read_empty
    \/ loop_exit
    \/ handler_exception
    \/ unknown_type
    \/ handle_shutdown
    \/ handle_start_monitoring
    \/ handle_stop_monitoring
    \/ stop_returns
    \/ handle_get_current_weather
    \/ handle_get_weather_history
    \/ handle_get_weather_forecast
    \/ handle_get_weather_alerts
    \/ handle_weather_analysis_request
    \/ handle_get_noaa_alerts
    \/ handle_update_alert_thresholds
    \/ handle_refresh_noaa_data
    \/ refresh_provider
    \/ refresh_reading
    \/ refresh_advisories

\* the monitoring task
MonitorStep ==
    \/ loop_ends
    \/ loop_cycle_simulated
    \/ loop_fetch
    \/ loop_provider
    \/ loop_reading
    \/ loop_advisories
    \/ loop_cancelled

\* the wall clock
ClockStep == retention_window_passes

\* stop(), awaited by the caller of start()
StopStep ==
    \/ stop
    \/ cleanup_stop_returns
    \/ cleanup_close
    \/ stop_goodbye

Next == TransportStep \/ MonitorStep \/ StopStep

Spec == Init /\ [][Next]_vars

\* the event loop runs every coroutine that is ready
FairSpec == Spec /\ WF_vars(TransportStep) /\ WF_vars(MonitorStep)

\* weather_monitoring_agent.main: `await agent.start()` and nothing after
\* it; stop() has no caller there
MainNext == TransportStep \/ MonitorStep

MainSpec ==
    Init /\ [][MainNext]_vars /\ WF_vars(TransportStep) /\ WF_vars(MonitorStep)

\* the agent while the wall clock moves on
ClockSpec == Init /\ [][Next \/ ClockStep]_vars

(***************************************************************************)
(* _check_weather_alerts as a function of the reading and the configured   *)
(* thresholds: one evaluation of every reading and threshold map below.    *)
(***************************************************************************)
EvalReadings ==
    {Reading(t, p, w, v, uv) :
        t \in {10, 20, 70, 95, 101}, p \in {0, 50, 75, 100},
        w \in {10, 30, 50}, v \in {2, 10}, uv \in {0, 8}}

\* alert_thresholds after update_alert_thresholds requests: the defaults,
\* a narrower temperature band, and a band with low above high
EvalThresholds ==
    {DefaultThresholds,
     [DefaultThresholds EXCEPT !["temperature_low"] = 20,
                               !["temperature_high"] = 70],
     [DefaultThresholds EXCEPT !["temperature_low"] = 95,
                               !["temperature_high"] = 20]}

EvalInit ==
    /\ is_running = TRUE
    /\ message_count = 0
    /\ error_count = 0
    /\ tpc = "evaluate"
    /\ msg = NoMsg
    /\ received = 0
    /\ sent = <<>>
    /\ use_real_weather = FALSE
    /\ noaa_service = FALSE
    /\ noaa_location = FALSE
    /\ \E reading \in EvalReadings : weather_data = <<reading>>
    /\ active_alerts = <<>>
    /\ noaa_alerts = {}
    /\ alert_thresholds \in EvalThresholds
    /\ monitoring_active = FALSE
    /\ mpc = "none"
    /\ cancel_requested = FALSE
    /\ call = [c \in Callers |-> NoCall]
    /\ loop_appends = 0
    /\ lines_read = 0
    /\ stopped_since = FALSE
    /\ seen_ids = {}
    /\ last_fetch = [ok |-> TRUE, snapshot |-> {}]
    /\ answer_log = <<>>
    /\ broadcast_count = [id \in AdvisoryIds |-> 0]
    /\ sent_count = [t \in LifecycleTypes |-> 0]

\* await self._check_weather_alerts(reading)
\* int(time.time() * 1000) at the construction of an envelope
Millis == {0, 1}

\* f"{prefix}_{int(time.time() * 1000)}"
MsgId(prefix, millis) == <<prefix, millis>>

\* the milliseconds read while n envelopes are built one after another
Stamps(n) ==
    {stamps \in [1..n -> Millis] :
        \A i \in 1..(n - 1) : stamps[i] <= stamps[i + 1]}

\* the envelopes with the id each one is constructed with
WithIds(envelopes, stamps) ==
    [i \in DOMAIN envelopes |->
        [id |-> MsgId(envelopes[i].type, stamps[i])] @@ envelopes[i]]

evaluate ==
    /\ tpc = "evaluate"
    /\ ~CheckRaises(weather_data[1], alert_thresholds)
    /\ LET fired == AlertsGenerated(weather_data[1], alert_thresholds)
       IN  /\ active_alerts' = PurgeOldAlerts(active_alerts \o fired)
           /\ \E stamps \in Stamps(Len(fired)) :
                 Emit(WithIds(MapSeq(fired, _broadcast_weather_alert), stamps))
    /\ tpc' = "evaluated"
    /\ UNCHANGED <<is_running, message_count, error_count, msg, received,
                   provider_vars, weather_data, noaa_alerts, alert_thresholds,
                   task_vars, call, ghost_vars>>

EvalSpec == EvalInit /\ [][evaluate]_vars

(***************************************************************************)
(* Encoding and decoding.  A dict is a function from its keys; the wire    *)
(* form of an envelope and of a reading have all the fields of the class.  *)
(***************************************************************************)
\* the instants datetime.now() may return
Clock == {0, 1, 2}

\* CrossLanguageMessage.__init__: the timestamp is the moment of construction
CrossLanguageMessage(msg_id, msg_type, source, destination, payload, metadata, now) ==
    [id |-> msg_id, type |-> msg_type, timestamp |-> now, source |-> source,
     destination |-> destination, payload |-> payload, metadata |-> metadata]

EnvelopeKeys ==
    {"id", "timestamp", "type", "source", "destination", "payload",
     "metadata"}

CrossLanguageMessage_to_dict(m) ==
    [k \in EnvelopeKeys |->
        CASE k = "id" -> m.id
          [] k = "timestamp" -> m.timestamp
          [] k = "type" -> m.type
          [] k = "source" -> m.source
          [] k = "destination" -> m.destination
          [] k = "payload" -> m.payload
          [] k = "metadata" -> m.metadata]

\* cls(data['id'], data['type'], data['source'], data['destination'],
\*     data['payload'], data['metadata'])
CrossLanguageMessage_from_dict(data, now) ==
    CrossLanguageMessage(data["id"], data["type"], data["source"],
                         data["destination"], data["payload"],
                         data["metadata"], now)

\* the fields of the WeatherReading dataclass
WeatherReadingFields ==
    {"timestamp", "temperature_f", "humidity_percent", "precipitation_inches",
     "wind_speed_mph", "wind_direction", "pressure_mb", "visibility_miles",
     "conditions", "uv_index"}

WeatherReading(timestamp, temperature_f, humidity_percent, precipitation_inches, wind_speed_mph, wind_direction, pressure_mb, visibility_miles, conditions, uv_index) ==
    [timestamp |-> timestamp, temperature_f |-> temperature_f,
     humidity_percent |-> humidity_percent,
     precipitation_inches |-> precipitation_inches,
     wind_speed_mph |-> wind_speed_mph, wind_direction |-> wind_direction,
     pressure_mb |-> pressure_mb, visibility_miles |-> visibility_miles,
     conditions |-> conditions, uv_index |-> uv_index]

\* asdict(self)
WeatherReading_to_dict(r) == [f \in WeatherReadingFields |-> r[f]]

\* cls(**data)
WeatherReading_from_dict(data) ==
    WeatherReading(data["timestamp"], data["temperature_f"],
                   data["humidity_percent"], data["precipitation_inches"],
                   data["wind_speed_mph"], data["wind_direction"],
                   data["pressure_mb"], data["visibility_miles"],
                   data["conditions"], data["uv_index"])

\* the envelopes encoded: built at any instant of the clock
WireEnvelopes ==
    {CrossLanguageMessage(id, type, source, Broadcast, payload, "normal", t) :
        id \in {1, 2}, type \in {"ping", "weather_update"},
        source \in {"host", "agent"}, payload \in {"ok", "not_an_object"},
        t \in Clock}

\* the readings encoded
WireReadings ==
    {WeatherReading(t, temp, 50, 0, 10, dir, 1013, 10, cond, 0) :
        t \in {0, 1}, temp \in {70, 96}, dir \in {"N"},
        cond \in {"Clear", "Hot"}}

CodecInit ==
    /\ is_running = TRUE
    /\ message_count = 0
    /\ error_count = 0
    /\ tpc = "encode"
    /\ msg \in WireEnvelopes
    /\ received = 0
    /\ sent = <<>>
    /\ use_real_weather = FALSE
    /\ noaa_service = FALSE
    /\ noaa_location = FALSE
    /\ \E reading \in WireReadings : weather_data = <<reading>>
    /\ active_alerts = <<>>
    /\ noaa_alerts = {}
    /\ alert_thresholds = DefaultThresholds
    /\ monitoring_active = FALSE
    /\ mpc = "none"
    /\ cancel_requested = FALSE
    /\ call = [c \in Callers |-> NoCall]
    /\ loop_appends = 0
    /\ lines_read = 0
    /\ stopped_since = FALSE
    /\ seen_ids = {}
    /\ last_fetch = [ok |-> TRUE, snapshot |-> {}]
    /\ answer_log = <<>>
    /\ broadcast_count = [id \in AdvisoryIds |-> 0]
    /\ sent_count = [t \in LifecycleTypes |-> 0]

\* from_dict(to_dict()) of the envelope, at an instant not before its
\* construction, and of the reading
decode ==
    /\ tpc = "encode"
    /\ \E now \in Clock :
          /\ now >= msg.timestamp
          /\ msg' = CrossLanguageMessage_from_dict(
                        CrossLanguageMessage_to_dict(msg), now)
    /\ weather_data' =
          <<WeatherReading_from_dict(WeatherReading_to_dict(weather_data[1]))>>
    /\ tpc' = "decoded"
    /\ Emit(<<>>)
    /\ UNCHANGED <<is_running, message_count, error_count, received,
                   provider_vars, active_alerts, noaa_alerts,
                   alert_thresholds, task_vars, call, ghost_vars>>

CodecSpec == CodecInit /\ [][decode]_vars

(***************************************************************************)
(* The values of a reading.  Quantities are in hundredths of their unit    *)
(* (degrees, percent, inches, mph, millibars, miles); the UV index is a    *)
(* whole number.                                                           *)
(***************************************************************************)
Abs(x) == IF x < 0 THEN 0 - x ELSE x

Larger(a, b) == IF a >= b THEN a ELSE b

Smaller(a, b) == IF a <= b THEN a ELSE b

\* round(x, 1)
RoundTenth(x) == ((x + 5) \div 10) * 10

\* WeatherSimulator.__init__: base_temp = 70.0
base_temp == 7000

\* the random draws of one generate_hourly_reading at their extremes:
\* normalvariate(0, sigma) stays within 12.13 sigma, the trends are
\* uniform(-5, 5) and uniform(-10, 10), precipitation is 0.0, a draw of
\* uniform(0.01, 0.5) or one of uniform(0.5, 2.0)
SimulatorDraws ==
    [hour_of_day : {0, 14}, temp_noise : {0 - 3639, 3639},
     temperature_trend : {0 - 500, 500},
     humidity_noise : {0 - 12130, 12130}, precipitation : {0, 50, 200},
     calm_wind : {0, 1000}, storm_wind : {2000},
     wind_noise : {0 - 3639, 3639}, pressure_trend : {0 - 1000, 1000},
     pressure_noise : {0 - 6065, 6065}, uv_draw : {0, 2}]

generate_hourly_reading(draw) ==
    LET hour_of_day == draw.hour_of_day
        daily_temp_variation == (1500 * (12 - Abs(hour_of_day - 14))) \div 24
        temperature ==
            base_temp + daily_temp_variation + draw.temp_noise
                + draw.temperature_trend
        base_humidity ==
            Larger(3000,
                   Smaller(9000, 8000 - ((temperature - base_temp) * 3) \div 2))
        humidity ==
            Larger(2000, Smaller(9500, base_humidity + draw.humidity_noise))
        precipitation == draw.precipitation
        base_wind ==
            500 + draw.calm_wind
                + (IF precipitation > 10 THEN draw.storm_wind ELSE 0)
        wind_speed == Larger(0, base_wind + draw.wind_noise)
        pressure == 101325 + draw.pressure_trend + draw.pressure_noise
        clear_visibility ==
            IF precipitation > 10
            THEN Larger(50, 1000 - precipitation * 8)
            ELSE 1000
        visibility ==
            IF humidity > 8500
            THEN Smaller(clear_visibility, 500)
            ELSE clear_visibility
        conditions ==
            CASE precipitation > 50 ->
                    IF temperature > 3200 THEN "Heavy Rain" ELSE "Heavy Snow"
              [] precipitation <= 50 /\ precipitation > 10 ->
                    IF temperature > 3200 THEN "Rain" ELSE "Snow"
              [] precipitation <= 10 /\ humidity > 8500 -> "Fog"
              [] precipitation <= 10 /\ humidity <= 8500
                    /\ wind_speed > 2500 -> "Windy"
              [] precipitation <= 10 /\ humidity <= 8500
                    /\ wind_speed <= 2500 /\ temperature > 9000 -> "Hot"
              [] precipitation <= 10 /\ humidity <= 8500
                    /\ wind_speed <= 2500 /\ temperature < 3200 -> "Cold"
              [] OTHER -> "Clear"
        uv_index ==
            IF 6 <= hour_of_day /\ hour_of_day <= 18
                  /\ conditions \in {"Clear", "Hot"}
            THEN Smaller(11,
                         Larger(1, (hour_of_day - 6) \div 2 + draw.uv_draw))
            ELSE 0
    IN  WeatherReading(0, RoundTenth(temperature), RoundTenth(humidity),
                       precipitation, RoundTenth(wind_speed), "N",
                       RoundTenth(pressure), RoundTenth(visibility),
                       conditions, uv_index)

\* the NOAAWeatherReading dataclass; an absent quantity is NoneVal
NOAAWeatherReading(timestamp, temperature_f, humidity_percent, wind_speed_mph, wind_direction, pressure_mb, visibility_miles, conditions) ==
    [timestamp |-> timestamp, temperature_f |-> temperature_f,
     humidity_percent |-> humidity_percent,
     wind_speed_mph |-> wind_speed_mph, wind_direction |-> wind_direction,
     pressure_mb |-> pressure_mb, visibility_miles |-> visibility_miles,
     conditions |-> conditions]

\* what get_current_weather builds from an observation: -20 C is -4 F,
\* 84000 Pa is 840 mb
ProviderReadings ==
    {NOAAWeatherReading(0, temp, hum, wind, "N", pres, vis, "Clear") :
        temp \in {NoneVal, 0 - 400, 0, 7000}, hum \in {NoneVal, 5000},
        wind \in {NoneVal, 0, 1000}, pres \in {NoneVal, 84000, 101300},
        vis \in {NoneVal, 1000}}

\* _convert_noaa_reading in every field
ConvertedReading(noaa_reading) ==
    WeatherReading(noaa_reading.timestamp,
                   OrDefault(noaa_reading.temperature_f, 7000),
                   OrDefault(noaa_reading.humidity_percent, 5000),
                   0,
                   OrDefault(noaa_reading.wind_speed_mph, 0),
                   noaa_reading.wind_direction,
                   OrDefault(noaa_reading.pressure_mb, 101300),
                   OrDefault(noaa_reading.visibility_miles, 1000),
                   noaa_reading.conditions,
                   0)

RangeInit ==
    /\ is_running = TRUE
    /\ message_count = 0
    /\ error_count = 0
    /\ tpc = "acquire"
    /\ \/ \E draw \in SimulatorDraws :
             msg = [origin |-> "simulated", draw |-> draw]
       \/ \E noaa_reading \in ProviderReadings :
             msg = [origin |-> "noaa", noaa_reading |-> noaa_reading]
    /\ received = 0
    /\ sent = <<>>
    /\ use_real_weather = (msg.origin = "noaa")
    /\ noaa_service = (msg.origin = "noaa")
    /\ noaa_location = (msg.origin = "noaa")
    /\ weather_data = <<>>
    /\ active_alerts = <<>>
    /\ noaa_alerts = {}
    /\ alert_thresholds = DefaultThresholds
    /\ monitoring_active = FALSE
    /\ mpc = "none"
    /\ cancel_requested = FALSE
    /\ call = [c \in Callers |-> NoCall]
    /\ loop_appends = 0
    /\ lines_read = 0
    /\ stopped_since = FALSE
    /\ seen_ids = {}
    /\ last_fetch = [ok |-> TRUE, snapshot |-> {}]
    /\ answer_log = <<>>
    /\ broadcast_count = [id \in AdvisoryIds |-> 0]
    /\ sent_count = [t \in LifecycleTypes |-> 0]

\* weather_data.append(simulator.generate_hourly_reading())
append_simulated ==
    /\ tpc = "acquire"
    /\ msg.origin = "simulated"
    /\ weather_data' = <<generate_hourly_reading(msg.draw)>>
    /\ tpc' = "acquired"
    /\ Emit(<<>>)
    /\ UNCHANGED <<is_running, message_count, error_count, msg, received,
                   provider_vars, active_alerts, noaa_alerts,
                   alert_thresholds, task_vars, call, ghost_vars>>

\* weather_data.append(_convert_noaa_reading(noaa_reading))
append_converted ==
    /\ tpc = "acquire"
    /\ msg.origin = "noaa"
    /\ weather_data' = <<ConvertedReading(msg.noaa_reading)>>
    /\ tpc' = "acquired"
    /\ Emit(<<>>)
    /\ UNCHANGED <<is_running, message_count, error_count, msg, received,
                   provider_vars, active_alerts, noaa_alerts,
                   alert_thresholds, task_vars, call, ghost_vars>>

RangeSpec == RangeInit /\ [][append_simulated \/ append_converted]_vars

(***************************************************************************)
(* Analysis of the history.  Time is in hours; a reading carries the hour  *)
(* it was taken at.                                                        *)
(***************************************************************************)
\* the longest history analysed
MaxReadings == 3

\* every variable but tpc, msg, call and weather_data, for the
\* specifications of one function or of one method
FunctionInit ==
    /\ is_running = TRUE
    /\ message_count = 0
    /\ error_count = 0
    /\ received = 0
    /\ sent = <<>>
    /\ use_real_weather = FALSE
    /\ noaa_service = FALSE
    /\ noaa_location = FALSE
    /\ active_alerts = <<>>
    /\ noaa_alerts = {}
    /\ alert_thresholds = DefaultThresholds
    /\ monitoring_active = FALSE
    /\ mpc = "none"
    /\ cancel_requested = FALSE
    /\ loop_appends = 0
    /\ lines_read = 0
    /\ stopped_since = FALSE
    /\ seen_ids = {}
    /\ last_fetch = [ok |-> TRUE, snapshot |-> {}]
    /\ answer_log = <<>>
    /\ broadcast_count = [id \in AdvisoryIds |-> 0]
    /\ sent_count = [t \in LifecycleTypes |-> 0]

\* the hours readings are taken at, and the hour of the analysis
AnalysisHours == 0..3

AnalysisNow == 3

\* a history: readings in the order they were appended, hence in time order
Histories ==
    UNION {{h \in [1..n -> {WeatherReading(t, temp, 60, 0, 10, "N", 1013, 10,
                                           "Clear", 5) :
                                t \in AnalysisHours, temp \in {70, 71, 72}}] :
               \A i \in 1..(n - 1) : h[i].timestamp <= h[i + 1].timestamp} :
           n \in 0..MaxReadings}

\* recent_data: the readings taken after cutoff_time = now - hours_back
RecentData(history, now, hours_back) ==
    SelectSeq(history, LAMBDA reading : reading.timestamp > now - hours_back)

RECURSIVE SumSeq(_)
SumSeq(values) ==
    IF values = <<>> THEN 0 ELSE Head(values) + SumSeq(Tail(values))

\* min(values) and max(values)
MinOf(values) ==
    CHOOSE v \in {values[i] : i \in DOMAIN values} :
        \A i \in DOMAIN values : v <= values[i]

MaxOf(values) ==
    CHOOSE v \in {values[i] : i \in DOMAIN values} :
        \A i \in DOMAIN values : v >= values[i]

\* faulty variant: the statistics of the whole history, not of the window
AnalysisOfWholeHistory(history, now, hours_back) ==
    IF history = <<>>
    THEN [error |-> "No weather data available"]
    ELSE LET temps == [i \in DOMAIN history |-> history[i].temperature_f]
         IN  [data_points |-> Len(history),
              temperature |->
                  [current |-> temps[Len(temps)],
                   min |-> MinOf(temps),
                   max |-> MaxOf(temps),
                   avg |-> (20 * SumSeq(temps) + Len(temps))
                               \div (2 * Len(temps)),
                   trend |-> IF temps[Len(temps)] > temps[1] THEN "rising"
                             ELSE IF temps[Len(temps)] < temps[1]
                                  THEN "falling"
                                  ELSE "stable"]]

\* the temperature statistics; avg is in tenths of a degree
get_weather_analysis(history, now, hours_back) ==
    IF history = <<>>
    THEN [error |-> "No weather data available"]
    ELSE LET recent_data == RecentData(history, now, hours_back)
             temps ==
                 [i \in DOMAIN recent_data |-> recent_data[i].temperature_f]
         IN  IF recent_data = <<>>
             THEN [error |-> "No data available for the period"]
             ELSE [data_points |-> Len(recent_data),
                   temperature |->
                       [current |-> temps[Len(temps)],
                        min |-> MinOf(temps),
                        max |-> MaxOf(temps),
                        avg |-> (20 * SumSeq(temps) + Len(temps))
                                    \div (2 * Len(temps)),
                        trend |-> IF temps[Len(temps)] > temps[1]
                                  THEN "rising"
                                  ELSE IF temps[Len(temps)] < temps[1]
                                       THEN "falling"
                                       ELSE "stable"]]

AnalysisInit ==
    /\ FunctionInit
    /\ tpc = "analyse"
    /\ \E hours_back \in {1, 2, 24} :
          msg = [hours_back |-> hours_back, now |-> AnalysisNow,
                 analysis |-> [error |-> "none"]]
    /\ call = [c \in Callers |-> NoCall]
    /\ weather_data \in Histories

\* analysis = self.get_weather_analysis(hours_back)
analyse ==
    /\ tpc = "analyse"
    /\ msg' = [msg EXCEPT !.analysis =
                  get_weather_analysis(weather_data, msg.now, msg.hours_back)]
    /\ tpc' = "analysed"
    /\ Emit(<<>>)
    /\ UNCHANGED <<is_running, message_count, error_count, received,
                   provider_vars, data_vars, task_vars, call, ghost_vars>>

AnalysisSpec == AnalysisInit /\ [][analyse]_vars

(***************************************************************************)
(* NOAAWeatherService._make_request, called by the monitoring loop and by  *)
(* a handler.  Time is in whole seconds.  Here msg holds the clock and the *)
(* service's last_request_time, and call[c] the call of coroutine c:       *)
(*   st        "idle", "wait" (the rate-limit sleep), "http" (awaiting     *)
(*             session.get), "backoff" (the sleep after a 429 answer),     *)
(*             "returned"                                                  *)
(*   wake      when a sleep is over                                        *)
(*   attempts  HTTP requests issued by the call so far                     *)
(***************************************************************************)
\* self.rate_limit_delay = 1.0
rate_limit_delay == 1

\* `await asyncio.sleep(5)` after a 429 answer
BackoffSeconds == 5

\* the clock stops here
MaxTime == 11

\* an upstream that answers 429 does so at most this often per call
MaxAttempts == 3

\* no call yet; time.time() is far beyond the initial
\* last_request_time = 0.0
RequestInit ==
    /\ FunctionInit
    /\ tpc = "requests"
    /\ msg = [now |-> rate_limit_delay, last_request_time |-> 0]
    /\ call = [c \in Callers |->
                  [op |-> "request", st |-> "idle", reading |-> NoReading,
                   wake |-> 0, attempts |-> 0]]
    /\ weather_data = <<>>

\* the body of _make_request from its first line to its first suspension:
\* the rate-limit sleep, or session.get after last_request_time is set
EnterRequest(c, attempts) ==
    IF msg.now - msg.last_request_time < rate_limit_delay
    THEN /\ call' = [call EXCEPT ![c].st = "wait",
                                 ![c].attempts = attempts,
                                 ![c].wake = msg.last_request_time
                                                + rate_limit_delay]
         /\ UNCHANGED msg
    ELSE /\ call' = [call EXCEPT ![c].st = "http",
                                 ![c].attempts = attempts + 1]
         /\ msg' = [msg EXCEPT !.last_request_time = msg.now]

RequestFrame ==
    /\ Emit(<<>>)
    /\ UNCHANGED <<is_running, message_count, error_count, tpc, received,
                   provider_vars, data_vars, task_vars, ghost_vars>>

\* a coroutine calls _make_request(url)
make_request ==
    /\ \E c \in Callers :
          /\ call[c].st \in {"idle", "returned"}
          /\ EnterRequest(c, 0)
    /\ RequestFrame

\* asyncio.sleep(wait_time) is over: self.last_request_time = time.time(),
\* then session.get
rate_limit_sleep_over ==
    /\ \E c \in Callers :
          /\ call[c].st = "wait"
          /\ msg.now >= call[c].wake
          /\ call' = [call EXCEPT ![c].st = "http",
                                  ![c].attempts = call[c].attempts + 1]
          /\ msg' = [msg EXCEPT !.last_request_time = msg.now]
    /\ RequestFrame

\* the upstream answers: 200 with data, 404 or another status or an
\* exception (None), or 429
response ==
    /\ \E c \in Callers, status \in {200, 404, 429, 500} :
          /\ call[c].st = "http"
          /\ IF status = 429
             THEN /\ call[c].attempts < MaxAttempts
                  /\ call' = [call EXCEPT ![c].st = "backoff",
                                          ![c].wake = msg.now + BackoffSeconds]
             ELSE call' = [call EXCEPT ![c].st = "returned"]
    /\ UNCHANGED msg
    /\ RequestFrame

\* asyncio.sleep(5) is over: `return await self._make_request(url)`
retry_request ==
    /\ \E c \in Callers :
          /\ call[c].st = "backoff"
          /\ msg.now >= call[c].wake
          /\ EnterRequest(c, call[c].attempts)
    /\ RequestFrame

\* a second passes
second_passes ==
    /\ msg.now < MaxTime
    /\ msg' = [msg EXCEPT !.now = msg.now + 1]
    /\ UNCHANGED call
    /\ RequestFrame

RequestNext ==
    \/ make_request
    \/ rate_limit_sleep_over
    \/ response
    \/ retry_request
    \/ second_passes

RequestSpec == RequestInit /\ [][RequestNext]_vars

(***************************************************************************)
(* The monitoring loop against the clock, in simulation mode.  Time is in  *)
(* periods of the loop's sleep.  Here msg holds the clock, the duration    *)
(* the task was started with, the start_time and end_time of the running   *)
(* loop, the end of its sleep and the parity of the number of calls of     *)
(* start_weather_monitoring and stop_weather_monitoring; tpc holds what    *)
(* the last of these calls returned.                                       *)
(***************************************************************************)
\* duration_hours of the start requests, in periods
Durations == {0, 1, 2}

DeadlineInit ==
    /\ FunctionInit
    /\ tpc = "none"
    /\ msg = [now |-> 0, duration |-> 0, start_time |-> 0, end_time |-> 0,
              wake |-> 0, calls |-> 0]
    /\ call = [c \in Callers |-> NoCall]
    /\ weather_data = <<>>

DeadlineFrame ==
    UNCHANGED <<is_running, message_count, error_count, received,
                provider_vars, lines_read, seen_ids, last_fetch>>

\* start_weather_monitoring(duration_hours)
timed_start ==
    /\ tpc # "stop_wait"
    /\ \/ /\ start_weather_monitoring
          /\ \E duration \in Durations :
                msg' = [msg EXCEPT !.duration = duration,
                                   !.calls = 1 - msg.calls]
          /\ tpc' = "start_true"
       \/ /\ start_rejected
          /\ tpc' = "start_false"
          /\ msg' = [msg EXCEPT !.calls = 1 - msg.calls]
    /\ Emit(<<>>)
    /\ DeadlineFrame
    /\ UNCHANGED <<data_vars, call, loop_appends>>

\* stop_weather_monitoring up to `await self.monitoring_task`, or False
timed_stop ==
    /\ tpc # "stop_wait"
    /\ \/ /\ ~monitoring_active
          /\ tpc' = "stop_false"
          /\ UNCHANGED task_vars
       \/ /\ stop_weather_monitoring
          /\ tpc' = "stop_wait"
    /\ msg' = [msg EXCEPT !.calls = 1 - msg.calls]
    /\ Emit(<<>>)
    /\ DeadlineFrame
    /\ UNCHANGED <<data_vars, call, loop_appends, stopped_since>>

\* `await self.monitoring_task` is over: stop_weather_monitoring returns True
timed_stop_returns ==
    /\ tpc = "stop_wait"
    /\ TaskFinished
    /\ tpc' = "stop_true"
    /\ stopped_since' = TRUE
    /\ Emit(<<>>)
    /\ DeadlineFrame
    /\ UNCHANGED <<msg, data_vars, task_vars, call, loop_appends>>

\* the loop's sleep is over, or the task runs its first step
LoopRuns == AtLoopTop /\ (mpc = "sleep" => msg.now >= msg.wake)

\* start_time = time.time() in the task's first step
StartTime == IF mpc = "created" THEN msg.now ELSE msg.start_time

\* end_time = start_time + duration_hours * 3600
EndTime == StartTime + msg.duration

\* the while condition holds: one cycle, up to asyncio.sleep
timed_cycle ==
    /\ LoopRuns
    /\ WhileCondition(~(msg.now < EndTime))
    /\ loop_appends < MaxCycles
    /\ \E reading \in SimReadings : Cycle(reading)
    /\ msg' = [msg EXCEPT !.start_time = StartTime, !.end_time = EndTime,
                          !.wake = msg.now + 1]
    /\ DeadlineFrame
    /\ UNCHANGED <<tpc, noaa_alerts, alert_thresholds, cancel_requested,
                   stopped_since>>

\* the while condition is false
timed_loop_ends ==
    /\ LoopRuns
    /\ ~WhileCondition(~(msg.now < EndTime))
    /\ LoopEnds
    /\ msg' = [msg EXCEPT !.start_time = StartTime, !.end_time = EndTime]
    /\ Emit(<<>>)
    /\ DeadlineFrame
    /\ UNCHANGED <<tpc, data_vars, cancel_requested, call, loop_appends,
                   stopped_since>>

\* one period passes
period_passes ==
    /\ msg.now < MaxTime
    /\ msg' = [msg EXCEPT !.now = msg.now + 1]
    /\ Emit(<<>>)
    /\ DeadlineFrame
    /\ UNCHANGED <<tpc, data_vars, task_vars, call, loop_appends,
                   stopped_since>>

DeadlineNext ==
    \/ timed_start
    \/ timed_stop
    \/ timed_stop_returns
    \/ timed_cycle
    \/ timed_loop_ends
    \/ loop_cancelled
    \/ period_passes

DeadlineSpec == DeadlineInit /\ [][DeadlineNext]_vars

(***************************************************************************)
(* _check_noaa_alerts called by the monitoring cycle and by the refresh    *)
(* handler, with the advisory request of each in flight for as long as the *)
(* provider takes.  Here msg holds the history of the calls: the callers   *)
(* whose requests are in flight or were in flight together with one that   *)
(* is, in the order the requests were issued; what each of them got back;  *)
(* the cache and the number of broadcasts when the last request was        *)
(* issued; the number of requests so far.                                  *)
(***************************************************************************)
MaxPolls == 4

\* the advisories the provider may have active
PollAdvisories == AdvisoryIds \cup {"adv_b"}

PollAnswers ==
    {[ok |-> FALSE, ids |-> {}]}
       \cup {[ok |-> TRUE, ids |-> S] : S \in SUBSET PollAdvisories}

NoPolls ==
    [order |-> <<>>,
     result |-> [c \in Callers |-> [returned |-> FALSE, ids |-> {}]]]

PollInit ==
    /\ is_running = TRUE
    /\ message_count = 0
    /\ error_count = 0
    /\ received = 0
    /\ lines_read = 0
    /\ sent = <<>>
    /\ tpc = "read"
    /\ use_real_weather = TRUE
    /\ noaa_service = TRUE
    /\ noaa_location = TRUE
    /\ \E reading \in SimReadings : weather_data = <<reading>>
    /\ active_alerts = <<>>
    /\ noaa_alerts = {}
    /\ alert_thresholds = DefaultThresholds
    /\ monitoring_active = TRUE
    /\ mpc = "sleep"
    /\ cancel_requested = FALSE
    /\ loop_appends = 0
    /\ stopped_since = FALSE
    /\ seen_ids = {}
    /\ last_fetch = [ok |-> TRUE, snapshot |-> {}]
    /\ answer_log = <<>>
    /\ broadcast_count = [id \in AdvisoryIds |-> 0]
    /\ sent_count = [t \in LifecycleTypes |-> 0]
    /\ call = [c \in Callers |-> NoCall]
    /\ msg = [order |-> <<>>, result |-> NoPolls.result, cache |-> {},
              base |-> broadcast_count, polls |-> 0]

PollFrame ==
    UNCHANGED <<is_running, message_count, error_count, received, lines_read,
                provider_vars, weather_data, active_alerts, alert_thresholds,
                monitoring_active, cancel_requested, loop_appends,
                stopped_since>>

\* where caller c is while its advisory request is in flight, and otherwise
Polling(c) == IF c = "loop" THEN "poll" ELSE "refresh"
NotPolling(c) == IF c = "loop" THEN "sleep" ELSE "read"

\* _check_noaa_alerts up to `await self.noaa_service.get_active_alerts`
issue_poll ==
    \E c \in Callers :
       /\ LiveConfigured /\ NOAA_AVAILABLE
       /\ call[c] = NoCall
       /\ msg.polls < MaxPolls
       /\ call' = [call EXCEPT ![c] = Request("alerts")]
       /\ IF c = "loop"
          THEN mpc = NotPolling(c) /\ mpc' = Polling(c) /\ UNCHANGED tpc
          ELSE tpc = NotPolling(c) /\ tpc' = Polling(c) /\ UNCHANGED mpc
       /\ msg' = [msg EXCEPT !.order = Append(@, c),
                             !.cache = noaa_alerts,
                             !.base = broadcast_count,
                             !.polls = @ + 1]
       /\ Emit(<<>>)
       /\ PollFrame
       /\ UNCHANGED <<noaa_alerts, seen_ids, last_fetch>>

\* get_active_alerts returned: _check_noaa_alerts from there to its end
return_poll ==
    \E c \in Callers :
       /\ InFlight(c, "alerts")
       /\ \E answer \in PollAnswers :
             /\ _check_noaa_alerts(get_active_alerts(answer))
             /\ Fetched(answer)
             /\ Emit(NoaaBroadcasts(get_active_alerts(answer)))
             /\ msg' = IF \E d \in Callers \ {c} : InFlight(d, "alerts")
                       THEN [msg EXCEPT !.result[c] =
                                  [returned |-> TRUE,
                                   ids |-> get_active_alerts(answer)]]
                       ELSE [msg EXCEPT !.order = NoPolls.order,
                                        !.result = NoPolls.result]
       /\ call' = [call EXCEPT ![c] = NoCall]
       /\ IF c = "loop"
          THEN mpc' = NotPolling(c) /\ UNCHANGED tpc
          ELSE tpc' = NotPolling(c) /\ UNCHANGED mpc
       /\ PollFrame

PollNext == issue_poll \/ return_poll

PollSpec == PollInit /\ [][PollNext]_vars

(***************************************************************************)
(* The query handlers next to the simulator.  Here call holds the          *)
(* simulator's current_conditions (temperature_trend, pressure_trend and   *)
(* storm_probability in percent), which generate_hourly_reading reads and  *)
(* _update_trends redraws.                                                 *)
(***************************************************************************)
MaxHoursAhead == 2

\* payload.get('hours_ahead', 24): the values explored
HoursAhead == 0..MaxHoursAhead

QueryTypes ==
    {"get_current_weather", "get_weather_history", "get_weather_forecast",
     "get_weather_alerts", "weather_analysis_request", "get_noaa_alerts"}

\* random.uniform(-5, 5), random.uniform(-10, 10) and the clamped
\* storm_probability: the draws explored
TemperatureTrends == {0, 5}
PressureTrends == {0, 10}
StormProbabilities == {10, 30}

TrendStates ==
    [temperature_trend : TemperatureTrends, pressure_trend : PressureTrends,
     storm_probability : StormProbabilities]

\* WeatherSimulator.__init__
InitialConditions ==
    [temperature_trend |-> 0, pressure_trend |-> 0, storm_probability |-> 10]

\* _update_trends: each trend is redrawn with some probability
_update_trends(current_conditions) ==
    {[temperature_trend |-> t, pressure_trend |-> p, storm_probability |-> sp] :
        t \in {current_conditions.temperature_trend} \cup TemperatureTrends,
        p \in {current_conditions.pressure_trend} \cup PressureTrends,
        sp \in {current_conditions.storm_probability} \cup StormProbabilities}

\* generate_hourly_reading with the noise at 0, no precipitation, at night:
\* the temperature is the base plus the trend
TrendReading(current_conditions) ==
    Reading(70 + current_conditions.temperature_trend, 0, 10, 10, 0)

QueryInit ==
    /\ FunctionInit
    /\ tpc = "read"
    /\ msg = NoMsg
    /\ call = InitialConditions
    /\ weather_data = <<TrendReading(InitialConditions)>>

\* message_loop reads a query
read_query ==
    /\ ReadyToRead
    /\ is_running
    /\ lines_read < MaxMsgs
    /\ lines_read' = lines_read + 1
    /\ \E message \in Requests(received + 1) :
          /\ message.type \in QueryTypes
          /\ message.payload = "ok"
          /\ msg' = message
    /\ received' = received + 1
    /\ tpc' = "dispatch"
    /\ Emit(<<>>)
    /\ UNCHANGED <<is_running, message_count, error_count, provider_vars,
                   data_vars, task_vars, call, read_vars>>

\* the conditions during a run of n calls of generate_hourly_reading:
\* conditions[i] holds when call i + 1 starts
TrendRuns(n) ==
    {conditions \in [0..n -> TrendStates] :
        /\ conditions[0] = call
        /\ \A i \in 1..n : conditions[i] \in _update_trends(conditions[i - 1])}

\* handle_get_weather_forecast: generate_hourly_reading(i) for i in
\* range(1, hours_ahead + 1), then the response
forecast_from_simulator ==
    /\ Dispatching("get_weather_forecast")
    /\ \E hours_ahead \in HoursAhead :
          \E conditions \in TrendRuns(hours_ahead) :
             /\ call' = conditions[hours_ahead]
             /\ Finish(<<[Response("weather_forecast_response", msg,
                                   [hours_ahead |-> hours_ahead,
                                    forecast |->
                                       [i \in 1..hours_ahead |->
                                           TrendReading(conditions[i - 1])]])
                             EXCEPT !.data_quality = "simulated"]>>)
    /\ UNCHANGED <<is_running, error_count, received, provider_vars,
                   data_vars, task_vars, ghost_vars>>

\* a monitoring cycle in simulation mode takes its reading
simulated_reading ==
    /\ loop_appends < MaxCycles
    /\ weather_data' = AppendReading(weather_data, TrendReading(call))
    /\ loop_appends' = loop_appends + 1
    /\ call' \in _update_trends(call)
    /\ Emit(<<>>)
    /\ UNCHANGED <<base_vars, provider_vars, active_alerts, noaa_alerts,
                   alert_thresholds, task_vars, stopped_since, seen_ids,
                   last_fetch, lines_read>>

QueryNext ==
    \/ read_query
    \/ handle_get_current_weather
    \/ handle_get_weather_history
    \/ forecast_from_simulator
    \/ handle_get_weather_alerts
    \/ handle_weather_analysis_request
    \/ handle_get_noaa_alerts
    \/ simulated_reading

QuerySpec == QueryInit /\ [][QueryNext]_vars

(***************************************************************************)
(* A live reading through _convert_noaa_reading and _check_weather_alerts, *)
(* as in a monitoring cycle.  Here msg holds the provider's reading.       *)
(***************************************************************************)
\* what get_current_weather may build (temperature_f, wind_speed_mph,
\* visibility_miles): a field the station does not report is None
LiveReadings ==
    {NOAAReading(t, w, v) :
        t \in {NoneVal, 0, 20, 70}, w \in {NoneVal, 0, 10},
        v \in {NoneVal, 0, 2, 10}}

ConvertInit ==
    /\ is_running = TRUE
    /\ message_count = 0
    /\ error_count = 0
    /\ tpc = "convert"
    /\ msg \in LiveReadings
    /\ received = 0
    /\ sent = <<>>
    /\ use_real_weather = TRUE
    /\ noaa_service = TRUE
    /\ noaa_location = TRUE
    /\ weather_data = <<>>
    /\ active_alerts = <<>>
    /\ noaa_alerts = {}
    /\ alert_thresholds = DefaultThresholds
    /\ monitoring_active = TRUE
    /\ mpc = "fetch"
    /\ cancel_requested = FALSE
    /\ call = [c \in Callers |-> NoCall]
    /\ loop_appends = 0
    /\ lines_read = 0
    /\ stopped_since = FALSE
    /\ seen_ids = {}
    /\ last_fetch = [ok |-> TRUE, snapshot |-> {}]
    /\ answer_log = <<>>
    /\ broadcast_count = [id \in AdvisoryIds |-> 0]
    /\ sent_count = [t \in LifecycleTypes |-> 0]

\* reading = self._convert_noaa_reading(noaa_reading);
\* self.weather_data.append(reading)
convert ==
    /\ tpc = "convert"
    /\ weather_data' = AppendReading(weather_data, _convert_noaa_reading(msg))
    /\ tpc' = "evaluate"
    /\ Emit(<<>>)
    /\ UNCHANGED <<is_running, message_count, error_count, msg, received,
                   provider_vars, active_alerts, noaa_alerts,
                   alert_thresholds, task_vars, call, ghost_vars>>

ConvertSpec == ConvertInit /\ [][convert \/ evaluate]_vars

(***************************************************************************)
(* Vocabulary of the properties.                                           *)
(***************************************************************************)
\* initialize() has returned
InitializeCompleted == tpc = "initialized" \/ sent_count["agent_ready"] >= 1

\* the transport loop is inside process_message
InHandler == tpc \in {"dispatch", "stop_wait", "refresh"}

\* this step is the one in which the handler of msg returns
HandlerReturns == InHandler /\ tpc' = "read"

ResponseTypes ==
    {"monitoring_response", "weather_response", "weather_history_response",
     "weather_forecast_response", "weather_alerts_response",
     "thresholds_update_response", "weather_analysis_response",
     "noaa_alerts_response", "noaa_data_refreshed"}

IsResponse(envelope) == envelope.type \in ResponseTypes
IsError(envelope) == envelope.type = "error"

Range(seq) == {seq[i] : i \in DOMAIN seq}

\* this step is an advisory poll that fetched noaa_alerts'
PollReturns ==
    \/ mpc = "poll" /\ mpc' = "sleep"
    \/ tpc = "refresh" /\ call["handler"].op = "alerts" /\ tpc' = "read"

\* `new` is `old` with one reading appended and cut to the window
IsAppendOf(old, new) ==
    /\ Len(new) >= 1
    /\ LET full == Append(old, new[Len(new)])
       IN  /\ Len(new) = IF Len(full) > HistoryWindow
                         THEN HistoryWindow ELSE Len(full)
           /\ new = SubSeq(full, Len(full) - Len(new) + 1, Len(full))

\* the alerts of one category among `alerts`
OfCategory(alerts, category) ==
    {i \in DOMAIN alerts : alerts[i].alert_type = category}

Categories == {"temperature", "precipitation", "wind", "visibility", "uv"}

\* the advisory identifiers this step broadcasts
BroadcastNow ==
    {id \in AdvisoryIds : broadcast_count'[id] > broadcast_count[id]}

(***************************************************************************)
(* Monitoring lifecycle.                                                   *)
(***************************************************************************)
\* C1: when stop_weather_monitoring, called in state Active, returns
\* success, the monitoring task has terminated and the state is Idle; from
\* that return until the next successful start the monitoring loop appends
\* no reading to the history.
C1_StopAwaitsTermination ==
    [][/\ (tpc = "stop_wait" /\ tpc' = "read")
            => (mpc' = "done" /\ ~monitoring_active' /\ ~cancel_requested')
       /\ (stopped_since /\ stopped_since')
            => (/\ loop_appends' = loop_appends
                /\ weather_data' # weather_data => tpc = "refresh"
                /\ mpc' = "done"
                /\ ~monitoring_active')]_vars

\* a stop has returned for a task that had already appended a reading
C1_Witness == stopped_since /\ loop_appends >= 1

\* C2: start while Active answers failure and leaves monitoring_active, the
\* task, history, alerts and thresholds unchanged; stop while Idle answers
\* failure and leaves them unchanged; start while Idle answers success and
\* moves Idle to Active.
C2_RejectedTransitions ==
    [][/\ (Dispatching("start_monitoring") /\ ~HandlerRaises /\ HandlerReturns)
            => /\ Len(sent') = 1
               /\ sent'[1].type = "monitoring_response"
               /\ IF monitoring_active
                  THEN /\ sent'[1].body = "failure"
                       /\ monitoring_state' = monitoring_state
                  ELSE /\ sent'[1].body = "success"
                       /\ monitoring_active'
                       /\ mpc' = "created"
                       /\ UNCHANGED data_vars
       /\ (Dispatching("stop_monitoring") /\ ~monitoring_active /\ tpc' # tpc)
            => /\ Len(sent') = 1
               /\ sent'[1].type = "monitoring_response"
               /\ sent'[1].body = "failure"
               /\ monitoring_state' = monitoring_state]_vars

\* a start request was just rejected: monitoring is Active, the task alive
C2_Witness ==
    /\ Len(sent) = 1
    /\ sent[1].type = "monitoring_response"
    /\ sent[1].body = "failure"
    /\ monitoring_active
    /\ mpc \notin {"none", "done"}

(***************************************************************************)
(* Dispatch.                                                               *)
(***************************************************************************)
\* C3: when a handler raises, the exception is caught at the dispatch
\* boundary, error_count increases by exactly one, one error envelope whose
\* correlationId is the request's id is sent to the original sender, and
\* the transport loop stays running and reads on.
C3_HandlerException ==
    [][(HandlerRaises /\ HandlerReturns)
          => /\ error_count' = error_count + 1
             /\ Len(sent') = 1
             /\ IsError(sent'[1])
             /\ sent'[1].correlationId = msg.id
             /\ sent'[1].destination = msg.source
             /\ is_running']_vars

C5_OneResponse ==
    [][/\ (HandlerReturns /\ msg.type \in HandledTypes)
            => /\ Len(SelectSeq(sent', IsResponse)) = 1
               /\ \A i \in DOMAIN sent' :
                     IsResponse(sent'[i])
                        => /\ sent'[i].correlationId = msg.id
                           /\ sent'[i].destination = msg.source
       /\ ~HandlerReturns => SelectSeq(sent', IsResponse) = <<>>]_vars

\* C5, amended: a request of a handled type whose handler returns without
\* raising produces exactly one response envelope, correlated to the
\* request and sent to its source; one whose handler raises produces no
\* response envelope and exactly one error envelope correlated to it.
C5_OneResponseOrError ==
    [][/\ (HandlerReturns /\ msg.type \in HandledTypes /\ ~HandlerRaises)
            => /\ Len(SelectSeq(sent', IsResponse)) = 1
               /\ SelectSeq(sent', IsError) = <<>>
               /\ \A i \in DOMAIN sent' :
                     IsResponse(sent'[i])
                        => /\ sent'[i].correlationId = msg.id
                           /\ sent'[i].destination = msg.source
       /\ (HandlerReturns /\ msg.type \in HandledTypes /\ HandlerRaises)
            => /\ SelectSeq(sent', IsResponse) = <<>>
               /\ Len(SelectSeq(sent', IsError)) = 1
               /\ \A i \in DOMAIN sent' :
                     IsError(sent'[i]) => sent'[i].correlationId = msg.id
       /\ ~HandlerReturns => SelectSeq(sent', IsResponse) = <<>>]_vars

\* one request was answered with an error, the next with a response
C5_Witness ==
    /\ error_count = 1
    /\ answer_log = <<1, 2>>
    /\ Len(sent) = 1
    /\ IsResponse(sent[1])
    /\ sent[1].correlationId = 2

\* C6: the transport loop handles one envelope at a time in receipt order:
\* while the handler of the k-th envelope has not returned no further
\* envelope is read, and correlated envelopes leave in request order.
C6_OneAtATime ==
    /\ InHandler => /\ msg.id = received
                    /\ message_count = received - 1
                    /\ \A i \in DOMAIN answer_log : answer_log[i] < received
    /\ tpc \in {"read", "exited"} => /\ message_count = received
                                     /\ msg = NoMsg
    /\ \A i, j \in DOMAIN answer_log : i < j => answer_log[i] < answer_log[j]

\* the second request's handler is suspended after the first was answered
C6_Witness ==
    /\ tpc \in {"stop_wait", "refresh"}
    /\ received = 2
    /\ answer_log = <<1>>

C8_CycleExceptionCaught ==
    [][(/\ loop_appends' = loop_appends + 1
        /\ CheckRaises(weather_data'[Len(weather_data')], alert_thresholds))
          => (monitoring_active' /\ mpc' # "done")]_vars

\* C9: every advisory identifier is broadcast only on its first
\* observation, whatever the polls in between returned.
C9_BroadcastOnFirstObservation ==
    \A id \in AdvisoryIds : broadcast_count[id] <= 1

\* C10: a poll broadcasts exactly the advisories whose identifiers no
\* earlier fetch had returned; an identifier returned by two consecutive
\* polls is not broadcast by the second.
C10_BroadcastExactlyUnseen ==
    [][PollReturns
          => /\ BroadcastNow = noaa_alerts' \ seen_ids
             /\ BroadcastNow \cap noaa_alerts = {}]_vars

(***************************************************************************)
(* Advisory cache.                                                         *)
(***************************************************************************)
\* C11: when the advisory fetch of a poll fails, the poll broadcasts
\* nothing and leaves the cached advisory list and the identifiers counted
\* as seen as they were before the poll.
C11_FailedFetchChangesNothing ==
    [][(PollReturns /\ ~last_fetch'.ok)
          => /\ BroadcastNow = {}
             /\ noaa_alerts' = noaa_alerts
             /\ seen_ids' = seen_ids]_vars

\* C12: after a successful poll the cached list is the set the poll
\* fetched, and a get_noaa_alerts request is answered with the set the
\* latest successful fetch returned and with its size as alert_count.
C12_CacheIsLatestSnapshot ==
    [][/\ (PollReturns /\ last_fetch'.ok)
            => noaa_alerts' = last_fetch'.snapshot
       /\ (Dispatching("get_noaa_alerts") /\ HandlerReturns)
            => /\ Len(sent') = 1
               /\ sent'[1].noaa_alerts = last_fetch.snapshot
               /\ sent'[1].alert_count = Cardinality(last_fetch.snapshot)]_vars

(***************************************************************************)
(* Initialization and the history.                                         *)
(***************************************************************************)
\* C13: when initialize() completes the history holds exactly one reading,
\* a converted provider reading only if the provider is configured; the
\* transport loop never runs with an empty history.
C13_InitializeOneReading ==
    /\ tpc = "initialized"
          => /\ Len(weather_data) = 1
             /\ weather_data[1].origin = "noaa" => LiveConfigured
    /\ InitializeCompleted => Len(weather_data) >= 1

\* initialize() has fallen back to simulation after a failed set-up
C13_Witness ==
    /\ tpc = "initialized"
    /\ noaa_service
    /\ ~use_real_weather
    /\ Len(weather_data) = 1

\* C14: after a set-up of the provider that failed (no location resolved)
\* the agent is in simulation mode for good and holds no provider handle.
C14_FallbackDiscardsProvider ==
    (InitializeCompleted /\ ~noaa_location)
        => (~use_real_weather /\ ~noaa_service)

\* C15: with the provider configured, a cycle whose acquisition returns
\* nothing appends exactly one simulator reading and leaves
\* use_real_weather, the provider handle and the location as they were.
C15_AbsentCycleFallsBack ==
    [][(/\ mpc = "fetch"
        /\ InFlight("loop", "gridpoint")
        /\ loop_appends' = loop_appends + 1)
          => /\ IsAppendOf(weather_data, weather_data')
             /\ weather_data'[Len(weather_data')].origin = "simulator"
             /\ UNCHANGED provider_vars
             /\ LiveConfigured']_vars

\* a cycle fell back to the simulator and the next one reached the provider
C15_Witness ==
    /\ loop_appends = 2
    /\ LiveConfigured
    /\ Len(weather_data) >= 2
    /\ weather_data[Len(weather_data) - 1].origin = "simulator"
    /\ weather_data[Len(weather_data)].origin = "noaa"

\* C16: after initialization the history holds between one and
\* HistoryWindow readings; every cycle of the loop and every other change
\* of it appends one reading and drops the oldest ones beyond the window.
C16_BoundedHistory ==
    [][InitializeCompleted
          => /\ Len(weather_data') >= 1
             /\ Len(weather_data') <= HistoryWindow
             /\ (\/ weather_data' # weather_data
                 \/ loop_appends' = loop_appends + 1)
                   => IsAppendOf(weather_data, weather_data')]_vars

\* the window is full and the loop has appended beyond it
C16_Witness ==
    /\ Len(weather_data) = HistoryWindow
    /\ loop_appends = MaxCycles
    /\ weather_data[1] # weather_data[HistoryWindow]

(***************************************************************************)
(* Alert engine.                                                           *)
(***************************************************************************)
\* C17: after any evaluation cycle the active-alert list holds no alert
\* older than the retention window, and the alerts that were inside the
\* window are kept.
C17_EvaluationPurges ==
    [][loop_appends' = loop_appends + 1
          => /\ \A i \in DOMAIN active_alerts' : ~active_alerts'[i].expired
             /\ \A i \in DOMAIN active_alerts :
                   ~active_alerts[i].expired
                      => \E j \in DOMAIN active_alerts' :
                            active_alerts'[j] = active_alerts[i]]_vars

\* C18: the list a get_weather_alerts request is answered with never
\* holds an alert older than the retention window.
C18_AnswerHoldsNoExpiredAlert ==
    [][(Dispatching("get_weather_alerts") /\ HandlerReturns)
          => /\ Len(sent') = 1
             /\ \A i \in DOMAIN sent'[1].alerts :
                   ~sent'[1].alerts[i].expired]_vars

\* C19: one evaluation fires at most one alert per category; in the
\* precipitation and wind categories a value at or above the extreme
\* threshold fires an extreme alert only, a value at or above the lower
\* threshold and below the extreme one a high alert only.
C19_OneAlertPerCategory ==
    tpc = "evaluated"
       => LET r == weather_data[1]
              th == alert_thresholds
              P == OfCategory(active_alerts, "precipitation")
              W == OfCategory(active_alerts, "wind")
          IN  /\ \A c \in Categories :
                    Cardinality(OfCategory(active_alerts, c)) <= 1
              /\ \A i \in DOMAIN active_alerts :
                    active_alerts[i].alert_type \in Categories
              /\ r.precipitation_inches >= th["precipitation_extreme"]
                    => /\ P # {}
                       /\ \A i \in P : active_alerts[i].severity = "extreme"
              /\ (/\ r.precipitation_inches >= th["precipitation_heavy"]
                  /\ r.precipitation_inches < th["precipitation_extreme"])
                    => /\ P # {}
                       /\ \A i \in P : active_alerts[i].severity = "high"
              /\ r.wind_speed_mph >= th["wind_extreme"]
                    => /\ W # {}
                       /\ \A i \in W : active_alerts[i].severity = "extreme"
              /\ (/\ r.wind_speed_mph >= th["wind_high"]
                  /\ r.wind_speed_mph < th["wind_extreme"])
                    => /\ W # {}
                       /\ \A i \in W : active_alerts[i].severity = "high"

\* one evaluation fired in every category
C19_Witness ==
    /\ tpc = "evaluated"
    /\ \A c \in Categories : OfCategory(active_alerts, c) # {}

\* C20: with thresholds low < high, a temperature at or above the high
\* threshold yields exactly one temperature alert, with at least one
\* recommendation and the shelters among the affected services; a
\* temperature strictly between the two thresholds yields none.
C20_TemperatureAlert ==
    (/\ tpc = "evaluated"
     /\ alert_thresholds["temperature_low"]
           < alert_thresholds["temperature_high"])
       => LET t == weather_data[1].temperature_f
              T == OfCategory(active_alerts, "temperature")
          IN  /\ t >= alert_thresholds["temperature_high"]
                    => /\ Cardinality(T) = 1
                       /\ \A i \in T :
                             /\ active_alerts[i].recommendations >= 1
                             /\ "shelter" \in active_alerts[i].affected_services
              /\ (/\ t > alert_thresholds["temperature_low"]
                  /\ t < alert_thresholds["temperature_high"])
                    => T = {}

\* a heat alert under a reconfigured temperature band
C20_Witness ==
    /\ tpc = "evaluated"
    /\ alert_thresholds["temperature_high"] = 70
    /\ weather_data[1].temperature_f = 70
    /\ OfCategory(active_alerts, "temperature") # {}

\* C21: every alert an evaluation fires is in the active-alert list and is
\* broadcast exactly once, in the order fired, as a weather_alert envelope
\* of its own with the broadcast destination, priority high and no
\* correlation id; an evaluation that fires nothing sends no envelope.
C21_EachAlertBroadcastOnce ==
    tpc = "evaluated"
       => /\ Len(sent) = Len(active_alerts)
          /\ \A c \in Categories :
                Cardinality({i \in DOMAIN sent : sent[i].body = c})
                   = Cardinality(OfCategory(active_alerts, c))
          /\ \A i \in DOMAIN sent :
                /\ sent[i].type = "weather_alert"
                /\ sent[i].body = active_alerts[i].alert_type
                /\ sent[i].destination = Broadcast
                /\ sent[i].priority = "high"
                /\ sent[i].correlationId = NoCorrelation
          /\ (\A c \in Categories : OfCategory(active_alerts, c) = {})
                => sent = <<>>

\* an evaluation fired two alerts and broadcast both
C21_Witness ==
    /\ tpc = "evaluated"
    /\ Len(active_alerts) = 2
    /\ Len(sent) = 2
    /\ sent[1].body = "temperature"
    /\ sent[2].body = "wind"

(***************************************************************************)
(* Threshold updates.                                                      *)
(***************************************************************************)
\* C22: an update_alert_thresholds request sets the existing thresholds its
\* partial map names to the given values and leaves every other threshold
\* as it was; no key is added; history, alert list, advisory cache and
\* monitoring flag are untouched; the next evaluation compares against the
\* thresholds as updated.
C22_PartialThresholdUpdate ==
    [][/\ (/\ Dispatching("update_alert_thresholds")
           /\ ~HandlerRaises
           /\ HandlerReturns)
            => LET update == ThresholdUpdate(msg.payload)
               IN  /\ DOMAIN alert_thresholds' = ThresholdKeys
                   /\ \A k \in ThresholdKeys :
                         alert_thresholds'[k] =
                            IF k \in UpdateKeys(update)
                            THEN UpdateValue(update, k)
                            ELSE alert_thresholds[k]
                   /\ UNCHANGED <<weather_data, active_alerts, noaa_alerts,
                                  monitoring_active>>
       /\ (loop_appends' = loop_appends + 1 /\ mpc' # "done")
            => LET r == weather_data'[Len(weather_data')]
               IN  (\E i \in DOMAIN sent' :
                       /\ sent'[i].type = "weather_alert"
                       /\ sent'[i].body = "temperature")
                     <=> (\/ r.temperature_f >= alert_thresholds["temperature_high"]
                          \/ r.temperature_f <= alert_thresholds["temperature_low"])
       /\ DOMAIN alert_thresholds' = ThresholdKeys]_vars

\* a reading below the default threshold raised an alert under the updated one
C22_Witness ==
    /\ alert_thresholds["temperature_high"] = 60
    /\ Len(weather_data) >= 1
    /\ weather_data[Len(weather_data)].temperature_f = 70
    /\ loop_appends >= 1
    /\ \E i \in DOMAIN sent :
          sent[i].type = "weather_alert" /\ sent[i].body = "temperature"

(***************************************************************************)
(* Handshake and degraded data.                                            *)
(***************************************************************************)
\* C23: the capability list of the ready envelope includes every request
\* type a weather handler is registered for, and ping, status, heartbeat.
C23_CapabilitiesCoverHandlers ==
    \A i \in DOMAIN sent :
       sent[i].type = "agent_ready"
          => (HandledTypes \cup BaseCapabilities) \subseteq sent[i].capabilities

\* the flag a payload has to carry for the reading in it
QualityOf(reading) ==
    IF reading.origin = "simulator" THEN "simulated" ELSE "live"

\* C24: a current-reading response and a state-update broadcast mark the
\* reading they carry as simulated when the simulator produced it and as
\* live when the provider did; a history response carries such a flag; the
\* advisory response says when the advisory mirror is disabled.
C24_DegradedDataIsFlagged ==
    \A i \in DOMAIN sent :
       /\ (/\ sent[i].type \in {"weather_update", "weather_response"}
           /\ sent[i].reading # NoReading)
             => sent[i].data_quality = QualityOf(sent[i].reading)
       /\ sent[i].type = "weather_history_response"
             => sent[i].data_quality \in {"simulated", "live"}
       /\ sent[i].type = "noaa_alerts_response"
             => (sent[i].body = "fallback_mode"
                   <=> ~(LiveConfigured /\ NOAA_AVAILABLE))

(***************************************************************************)
(* Start and stop sequences.                                               *)
(***************************************************************************)
\* C25: start() first completes initialize(), then broadcasts exactly one
\* agent_ready envelope with the capability list, then enters the
\* transport loop; no line is read or dispatched before the ready envelope
\* is sent; when initialize() fails, no ready envelope is ever sent, the
\* loop is never entered and start() ends in the failure.
C25_StartSequence ==
    [][/\ tpc = "constructed"
            => /\ tpc' \in {"initialized", "failed"}
               /\ sent_count'["agent_ready"] = 0
       /\ tpc = "initialized"
            => /\ tpc' = "read"
               /\ Len(sent') = 1
               /\ sent'[1].type = "agent_ready"
               /\ sent'[1].destination = Broadcast
               /\ sent'[1].capabilities = get_capabilities
               /\ sent'[1].capabilities # {}
               /\ sent_count'["agent_ready"] = 1
       /\ sent_count'["agent_ready"] > sent_count["agent_ready"]
            => tpc = "initialized"
       /\ sent_count'["agent_ready"] <= 1
       /\ (tpc' \in {"read", "dispatch"} \/ received' > received)
            => sent_count'["agent_ready"] = 1
       /\ tpc' = "failed" => tpc = "constructed"
       /\ (tpc # "constructed" /\ ~InitializeCompleted)
            => /\ tpc' \notin {"initialized", "read", "dispatch"}
               /\ received' = 0
               /\ sent_count'["agent_ready"] = 0]_vars

\* a request was dispatched after the handshake
C25_Witness ==
    /\ sent_count["agent_ready"] = 1
    /\ tpc = "dispatch"
    /\ received = 1

C27_UnparseableLineIsNotFatal ==
    [][/\ lines_read' = lines_read + 1
          => \/ /\ tpc' = "dispatch"
                /\ received' = received + 1
                /\ msg' \in Requests(received')
                /\ UNCHANGED <<error_count, message_count>>
             \/ /\ tpc = "read"
                /\ tpc' = "read"
                /\ is_running'
                /\ sent' = <<>>
                /\ error_count' = error_count + 1
                /\ UNCHANGED <<message_count, msg, received, provider_vars,
                               data_vars, task_vars, call, read_vars,
                               answer_log, broadcast_count, sent_count>>
       /\ (tpc = "read" /\ is_running /\ lines_read' = lines_read)
          => UNCHANGED base_vars]_vars

\* a request was answered after a line that could not be parsed
C27_Witness ==
    /\ lines_read = 2
    /\ received = 1
    /\ error_count = 1
    /\ message_count = 1
    /\ tpc = "read"
    /\ Len(sent) = 1
    /\ IsResponse(sent[1])
    /\ sent[1].correlationId = 1

(***************************************************************************)
(* Wire format.                                                            *)
(***************************************************************************)
\* C28: decoding what was encoded gives back the reading field for field,
\* and the envelope in every field (id, type, timestamp, source,
\* destination, payload, metadata), whatever the clock reads at the decode.
C28_RoundTrip ==
    [][(tpc = "encode" /\ tpc' = "decoded")
          => /\ weather_data' = weather_data
             /\ \A k \in EnvelopeKeys : msg'[k] = msg[k]]_vars

\* C29: the envelopes one evaluation emits have pairwise distinct ids, also
\* when several alert broadcasts are built within the same millisecond.
C29_DistinctIds ==
    tpc = "evaluated" =>
        \A i, j \in DOMAIN sent : i # j => sent[i].id # sent[j].id

(***************************************************************************)
(* Ranges of the values.                                                   *)
(***************************************************************************)
InRange(reading) ==
    /\ 0 <= reading.temperature_f /\ reading.temperature_f <= 15000
    /\ 0 <= reading.humidity_percent /\ reading.humidity_percent <= 10000
    /\ 0 <= reading.precipitation_inches
    /\ 0 <= reading.wind_speed_mph
    /\ 90000 <= reading.pressure_mb /\ reading.pressure_mb <= 110000
    /\ 0 <= reading.visibility_miles /\ reading.visibility_miles <= 1500
    /\ 0 <= reading.uv_index /\ reading.uv_index <= 11

\* C30: every reading that enters the history, drawn by the simulator or
\* converted from the provider, has temperature in 0..150, humidity in
\* 0..100, precipitation and wind not negative, pressure in 900..1100,
\* visibility in 0..15 and UV index in 0..11.
C30_ReadingsInRange ==
    tpc = "acquired" => InRange(weather_data[1])

(***************************************************************************)
(* Analysis.                                                               *)
(***************************************************************************)
StrictlyRising(readings) ==
    \A i \in 1..(Len(readings) - 1) :
        readings[i].temperature_f < readings[i + 1].temperature_f

C32_SingleWriter ==
    [][/\ ((TransportStep \/ StopStep) /\ tpc # "constructed")
             => UNCHANGED <<weather_data, active_alerts, noaa_alerts>>
       /\ MonitorStep => UNCHANGED <<alert_thresholds, monitoring_active>>]_vars

(***************************************************************************)
(* Requests to the provider.                                               *)
(***************************************************************************)
\* C33: one call of _make_request issues at most two HTTP requests, whatever
\* the upstream answers.
C33_AtMostOneRetry ==
    tpc = "requests" => \A c \in Callers : call[c].attempts <= 2

\* C37: a request to the provider starts at least rate_limit_delay after
\* the request before it, also when two coroutines are in _make_request at
\* the same time.
C37_RateLimited ==
    [][(tpc = "requests"
          /\ \E c \in Callers : call[c].st # "http" /\ call'[c].st = "http")
          => msg.now - msg.last_request_time >= rate_limit_delay]_vars

C35_Deadline ==
    [][/\ loop_appends' = loop_appends + 1
            => /\ msg.now < msg'.start_time + msg.duration
               /\ msg'.start_time <= msg.now
       /\ (monitoring_active /\ ~cancel_requested /\ mpc # "done"
              /\ mpc' = "done" /\ loop_appends' = loop_appends)
            => /\ msg.now >= msg'.end_time
               /\ ~monitoring_active'
               /\ tpc' = tpc
       /\ (mpc = "done" /\ ~monitoring_active /\ msg'.calls # msg.calls
              /\ tpc' \in {"stop_false", "stop_wait"})
            => (tpc' = "stop_false" /\ UNCHANGED task_vars)
       /\ (mpc = "done" /\ ~monitoring_active /\ msg'.calls # msg.calls
              /\ tpc' \in {"start_false", "start_true"})
            => (tpc' = "start_true" /\ monitoring_active'
                   /\ mpc' = "created")]_vars

\* a stop was refused after a task that had run a cycle ended at its deadline
C35_Witness ==
    /\ tpc = "stop_false"
    /\ mpc = "done"
    /\ ~monitoring_active
    /\ ~stopped_since
    /\ loop_appends >= 1
    /\ msg.duration >= 1
    /\ msg.now >= msg.end_time

\* handle_shutdown has returned to message_loop
ShutdownProcessed == tpc = "read" /\ ~is_running

\* the stop sequence is complete: no monitoring task is left, the provider
\* session is closed and the goodbye has been sent
StopSequenceComplete ==
    /\ tpc = "stopped"
    /\ mpc \in {"none", "done"}
    /\ ~monitoring_active
    /\ ~noaa_service

\* C36: once a shutdown message has been processed the transport loop
\* dispatches no further envelope, and the agent eventually completes the
\* stop sequence: the monitoring task cancelled and terminated, the provider
\* session closed, the goodbye broadcast.
C36_ShutdownStops ==
    /\ [][~is_running => tpc' # "dispatch"]_vars
    /\ ShutdownProcessed ~> StopSequenceComplete

\* the second of two polls that were in flight together returns in this step,
\* both with advisory id, which the cache did not hold when the second
\* request was issued
OverlappingPollsReturned(c, id) ==
    /\ tpc \in {"read", "refresh"}
    /\ Len(msg.order) = 2
    /\ InFlight(c, "alerts")
    /\ call'[c] = NoCall
    /\ \A d \in Callers \ {c} :
          msg.result[d].returned /\ id \in msg.result[d].ids
    /\ id \in noaa_alerts'
    /\ id \notin msg.cache

\* what the request issued last came back with, in the step caller c returns
ResultOfLastIssued(c) ==
    IF msg.order[2] = c THEN noaa_alerts' ELSE msg.result[msg.order[2]].ids

\* C38: when the poll of the monitoring cycle and the poll of the refresh
\* handler are in flight together and both return the same new identifier,
\* the advisory is broadcast exactly once, and after both have returned the
\* cache is the result of the request that was issued last.
C38_OverlappingPolls ==
    [][\A c \in Callers : \A id \in AdvisoryIds :
          OverlappingPollsReturned(c, id)
             => /\ broadcast_count'[id] = msg.base[id] + 1
                /\ noaa_alerts' = ResultOfLastIssued(c)]_vars

\* C39: a query handler (get_current_weather, get_weather_history,
\* get_weather_forecast, get_weather_alerts, weather_analysis_request,
\* get_noaa_alerts) leaves the history, the alert list, the advisory cache,
\* the thresholds, the monitoring flag and task and the simulator's trends as
\* they are; the forecast response carries exactly hours_ahead readings.
C39_QueriesOnlyRead ==
    [][(tpc = "dispatch" /\ msg.type \in QueryTypes /\ tpc' = "read")
          => /\ UNCHANGED <<data_vars, task_vars, provider_vars, call>>
             /\ msg.type = "get_weather_forecast"
                  => Len(sent'[1].body.forecast) = sent'[1].body.hours_ahead]_vars

\* the converted field: the provider's value, or the default when absent
FieldCopied(provided, converted, default) ==
    converted = IF provided = NoneVal THEN default ELSE provided

HasAlert(type) ==
    \E i \in 1..Len(active_alerts) : active_alerts[i].alert_type = type

\* C40: _convert_noaa_reading copies every numeric field the live reading
\* provides unchanged, the value 0 included, and takes the default (70 for
\* the temperature, 0 for the wind speed, 10 for the visibility) only where
\* the field is absent; so a live temperature at or below temperature_low
\* and a live visibility at or below visibility_low each lead to their alert
\* in the evaluation of the cycle.
C40_ConversionKeepsValues ==
    /\ tpc \in {"evaluate", "evaluated"}
         => /\ FieldCopied(msg.temperature_f, weather_data[1].temperature_f, 70)
            /\ FieldCopied(msg.wind_speed_mph, weather_data[1].wind_speed_mph, 0)
            /\ FieldCopied(msg.visibility_miles,
                           weather_data[1].visibility_miles, 10)
    /\ tpc = "evaluated"
         => /\ (/\ msg.temperature_f # NoneVal
                /\ msg.temperature_f <= alert_thresholds["temperature_low"])
                 => HasAlert("temperature")
            /\ (/\ msg.visibility_miles # NoneVal
                /\ msg.visibility_miles <= alert_thresholds["visibility_low"])
                 => HasAlert("visibility")

====
